---- MODULE Spec2Model ----
(***************************************************************************)
(* AirTrafficSim: the Autopilot flight-plan engine and per-tick update,    *)
(* the Aircraft facade, and the server's runSimulation handler.            *)
(*                                                                         *)
(* Conventions.  A Python str is a sequence of one-character strings       *)
(* ("" is << >>), a Python list is a sequence, list indices are kept       *)
(* 0-based as in the source (At, SetAt, InsertAt translate them).  A       *)
(* coordinate is an opaque record [axis, wp, ref]: the axis it measures,   *)
(* the fix it is the coordinate of, and the name of the reference position *)
(* it was resolved against.                                                *)
(***************************************************************************)
EXTENDS Integers, Sequences, FiniteSets, TLC

VARIABLES
    traffic,    \* Traffic store: field name -> array with one entry per slot
    ap,         \* Autopilot: field name -> array/list with one entry per slot
    handles,    \* Aircraft facade objects: sequence of [index, vectoring]
    hist,       \* history variable: the last operation and the state before it
    own,        \* history variable: per aircraft identity, the values it stored
    obs,        \* history variable: the holding clearance and the turns made
    rwy,        \* reciprocal-runway computation: its input and result
    calc,       \* a stateless computation: its inputs and its result
    srv         \* server process: running_environment, environments, handlers

vars == <<traffic, ap, handles, hist, own, obs, rwy, calc, srv>>

----------------------------------------------------------------------------
(* Python lists and strings *)

At(s, i) == s[i + 1]

Last(s) == s[Len(s)]

Front(s) == SubSeq(s, 1, Len(s) - 1)

SetAt(s, i, x) == [s EXCEPT ![i + 1] = x]

\* list.insert(i, x) for i >= 0: an index beyond the end appends
InsertAt(s, i, x) ==
    IF i >= Len(s) THEN Append(s, x)
    ELSE SubSeq(s, 1, i) \o <<x>> \o SubSeq(s, i + 1, Len(s))

\* del s[i] / np.delete(s, i)
RemoveAt(s, i) == SubSeq(s, 1, i) \o SubSeq(s, i + 2, Len(s))

\* s[a:] and s[a:b] on strings
SliceFrom(s, a) == IF a >= Len(s) THEN << >> ELSE SubSeq(s, a + 1, Len(s))

Slice(s, a, b) ==
    IF a >= Len(s) THEN << >>
    ELSE SubSeq(s, a + 1, IF b > Len(s) THEN Len(s) ELSE b)

Range(s) == {s[k] : k \in 1..Len(s)}

Digits == <<"0", "1", "2", "3", "4", "5", "6", "7", "8", "9">>

DigitVal(c) == (CHOOSE k \in 1..10 : Digits[k] = c) - 1

\* int(s) for a string of decimal digits
RECURSIVE PyInt(_)
PyInt(s) ==
    IF s = << >> THEN 0 ELSE PyInt(Front(s)) * 10 + DigitVal(Last(s))

\* str(n) for n >= 0
RECURSIVE PyStr(_)
PyStr(n) ==
    IF n < 10 THEN <<Digits[n + 1]>>
    ELSE PyStr(n \div 10) \o <<Digits[(n % 10) + 1]>>

\* s.zfill(w)
RECURSIVE ZFill(_, _)
ZFill(s, w) == IF Len(s) >= w THEN s ELSE ZFill(<<"0">> \o s, w)

----------------------------------------------------------------------------
(* Enumerations, as the Autopilot docstrings number them *)

HEADING == 1

LNAV == 2

AUTO == 1

SPEED == 2

----------------------------------------------------------------------------
(* Navigation reference database: a small fixed database standing for Nav *)

DEP == <<"V", "H">>

ARR == <<"R", "C">>

RW07 == <<"R", "W", "0", "7">>

RW05R == <<"R", "W", "0", "5", "R">>

RW18 == <<"R", "W", "1", "8">>

RW36C == <<"R", "W", "3", "6", "C">>

Coord(axis, wp, ref) == [axis |-> axis, wp |-> wp, ref |-> ref]

\* runway thresholds: <<airport, runway designator>> -> elevation [ft]
NavRunways ==
    (<<DEP, <<"0", "7">>>> :> 28) @@
    (<<ARR, <<"0", "5", "R">>>> :> 108) @@ (<<ARR, <<"2", "3", "L">>>> :> 98) @@
    (<<ARR, <<"3", "6", "C">>>> :> 73) @@ (<<ARR, <<"1", "8", "C">>>> :> 12) @@
    (<<ARR, <<"1", "8">>>> :> 64)

\* Nav.get_runway_coord: [found, lat, long, alt]; not found is NotFound raised
get_runway_coord(airport, runway) ==
    IF <<airport, runway>> \in DOMAIN NavRunways
    THEN [found |-> TRUE,
          lat |-> Coord("lat", airport \o <<"/">> \o runway, << >>),
          long |-> Coord("long", airport \o <<"/">> \o runway, << >>),
          alt |-> NavRunways[<<airport, runway>>]]
    ELSE [found |-> FALSE, lat |-> << >>, long |-> << >>, alt |-> 0]

Leg(name, alt, spd) == [name |-> name, alt |-> alt, spd |-> spd]

SID1 == <<"S", "1">>

SID2 == <<"S", "2">>

SID0 == <<"S", "0">>

STAR1 == <<"T", "1">>

STAR2 == <<"T", "2">>

APP_I == <<"I", "0", "5", "R">>

APP_R == <<"R", "3", "6", "C">>

\* Nav.get_procedure: the legs (waypoint, altitude restriction, speed
\* restriction) of a procedure; << >> when it does not apply
get_procedure(airport, runway, procedure, appch, iaf) ==
    CASE airport = DEP /\ procedure = SID1 /\ appch = << >> ->
            <<Leg(<<"P">>, -1, 250)>>
      [] airport = DEP /\ procedure = SID2 /\ appch = << >> ->
            <<Leg(<<"P">>, -1, 250), Leg(<<"Q">>, 9000, -1)>>
      [] airport = ARR /\ procedure = STAR1 /\ appch = << >> ->
            <<Leg(<<"K">>, -1, 280), Leg(<<"M">>, 7000, -1)>>
      [] airport = ARR /\ procedure = STAR2 /\ appch = << >> ->
            <<Leg(<<"N">>, 11000, 280)>>
      \* initial approach from the IAF
      [] airport = ARR /\ procedure = APP_I /\ appch = <<"A">> /\ iaf = <<"M">> ->
            <<Leg(<<"M">>, -1, -1), Leg(<<"U">>, 4000, 210)>>
      [] airport = ARR /\ procedure = APP_I /\ appch = <<"A">> /\ iaf = <<"N">> ->
            <<Leg(<<"N">>, 6000, -1), Leg(<<"N">>, 5000, -1)>>
      \* final approach, ending on the runway
      [] airport = ARR /\ procedure = APP_I /\ appch = <<"I">>
            /\ runway = <<"0", "5", "R">> ->
            <<Leg(<<"U">>, 4000, -1), Leg(<<"F">>, -1, 160), Leg(RW05R, 158, -1)>>
      [] airport = ARR /\ procedure = APP_R /\ appch = <<"R">>
            /\ runway = <<"3", "6", "C">> ->
            <<Leg(<<"G">>, 3000, 180)>>
      [] OTHER -> << >>

\* Nav.get_wp_coord: the fix's coordinates, resolved against a reference
get_wp_coord(axis, name, ref) == Coord(axis, name, ref.wp)

HOLD_FIXES == {<<"E">>, <<"Q">>}

\* Nav.get_holding_procedure: the holding-definition tuple (fix at index 0,
\* inbound course at index 4, leg length [nm] at index 6); << >> is NotFound
get_holding_procedure(fix, region) ==
    IF fix \in HOLD_FIXES THEN <<fix, region, 0, 0, 90, 0, 4>> ELSE << >>

----------------------------------------------------------------------------
(* Autopilot state: one array or list per field, one entry per aircraft *)

\* the fields add_aircraft appends to, in the order of the source
AddFields ==
    <<"alt", "heading", "track_angle", "ap_rate_of_turn", "cas", "mach", "vs",
      "fpa", "lat", "long", "lat_next", "long_next", "lat_prev", "long_prev",
      "hv_next_wp", "dist", "flight_plan_index", "flight_plan_enroute",
      "flight_plan_name", "flight_plan_lat", "flight_plan_long",
      "flight_plan_target_alt", "flight_plan_target_speed", "procedure_speed",
      "speed_mode", "auto_throttle_mode", "vertical_mode", "lateral_mode",
      "expedite_descent", "holding", "holding_round", "holding_info",
      "departure_airport", "departure_runway", "sid", "arrival_airport",
      "arrival_runway", "star", "approach", "cruise_alt", "flight_plan_updated">>

\* the fields del_aircraft removes an entry from, in the order of the source
DelFields ==
    <<"alt", "heading", "track_angle", "ap_rate_of_turn", "cas", "mach", "vs",
      "fpa", "lat", "long", "lat_next", "long_next", "lat_prev", "long_prev",
      "hv_next_wp", "dist", "flight_plan_index", "flight_plan_enroute",
      "flight_plan_name", "flight_plan_lat", "flight_plan_long",
      "flight_plan_target_alt", "flight_plan_target_speed", "procedure_speed",
      "speed_mode", "auto_throttle_mode", "vertical_mode", "lateral_mode",
      "expedite_descent", "holding", "holding_round", "holding_info",
      "departure_airport", "departure_runway", "sid", "arrival_airport",
      "arrival_runway", "star", "approach", "flight_plan_updated">>

\* Autopilot.__init__: every array empty
APInit == [f \in Range(AddFields) |-> << >>]

\* 1-based position of Python index i (negative counts from the end) in s
Slot(s, i) == IF i < 0 THEN Len(s) + i + 1 ELSE i + 1

\* self.<f>[index]
Get(a, f, index) == a[f][Slot(a[f], index)]

\* self.<f>[index] = v
Put(a, f, index, v) == [a EXCEPT ![f] = [@ EXCEPT ![Slot(@, index)] = v]]

----------------------------------------------------------------------------
(* Autopilot.set_flight_plan.  The plan under assembly is a record p: the   *)
(* five leg lists, the three mode fields the assembly may set, and raised,  *)
(* true once a statement has raised (the lists then stay as they were when  *)
(* it raised).                                                              *)

Repeat(x, n) == [k \in 1..n |-> x]

Names(legs) == [k \in 1..Len(legs) |-> legs[k].name]

Alts(legs) == [k \in 1..Len(legs) |-> legs[k].alt]

Spds(legs) == [k \in 1..Len(legs) |-> legs[k].spd]

\* the three extend calls and the three mode assignments that follow them
ExtendLegs(p, legs) ==
    [p EXCEPT !.name = @ \o Names(legs), !.alt = @ \o Alts(legs),
              !.spd = @ \o Spds(legs)]

SetModes(p) == [p EXCEPT !.hv = TRUE, !.lateral = LNAV, !.throttle = AUTO]

\* name.pop(); alt.pop(); spd.pop(): pop of an empty list raises IndexError
PopLeg(p) ==
    IF p.name = << >> THEN [p EXCEPT !.raised = TRUE]
    ELSE IF p.alt = << >> THEN [p EXCEPT !.name = Front(@), !.raised = TRUE]
    ELSE IF p.spd = << >>
         THEN [p EXCEPT !.name = Front(@), !.alt = Front(@), !.raised = TRUE]
    ELSE [p EXCEPT !.name = Front(@), !.alt = Front(@), !.spd = Front(@)]

SfpSid(p, departure_airport, departure_runway, sid) ==
    IF p.raised \/ sid = << >> THEN p
    ELSE LET legs == get_procedure(departure_airport, departure_runway, sid,
                                   << >>, << >>)
         IN  IF Len(legs) > 0 THEN SetModes(ExtendLegs(p, legs)) ELSE p

SfpEnroute(p, flight_plan, cruise_alt) ==
    IF p.raised \/ flight_plan = << >> THEN p
    ELSE SetModes(
           [p EXCEPT !.name = @ \o flight_plan,
                     !.alt = IF cruise_alt > -1
                             THEN @ \o Repeat(cruise_alt, Len(flight_plan))
                             ELSE @,
                     !.spd = @ \o Repeat(-1, Len(flight_plan))])

SfpStar(p, arrival_airport, arrival_runway, star) ==
    IF p.raised \/ star = << >> THEN p
    ELSE LET legs == get_procedure(arrival_airport, SliceFrom(arrival_runway, 2),
                                   star, << >>, << >>)
         IN  IF Len(legs) > 0 THEN SetModes(ExtendLegs(p, legs)) ELSE p

\* the initial-approach part
SfpInitialApproach(p, arrival_airport, arrival_runway, approach) ==
    IF p.raised \/ approach = << >> THEN p
    ELSE IF p.name = << >> THEN [p EXCEPT !.raised = TRUE]   \* name[-1]
    ELSE LET legs == get_procedure(arrival_airport, SliceFrom(arrival_runway, 2),
                                   approach, <<"A">>, Last(p.name))
             q == PopLeg(p)
         IN  IF Len(legs) = 0 THEN p
             ELSE IF q.raised THEN q
             ELSE IF Cardinality(Range(Names(legs))) = 1
                  THEN ExtendLegs(q, SubSeq(legs, 1, 1))
                  ELSE ExtendLegs(q, legs)

\* the final-approach part
SfpFinalApproach(p, arrival_airport, arrival_runway, approach) ==
    IF p.raised \/ approach = << >> THEN p
    ELSE LET legs == get_procedure(arrival_airport, SliceFrom(arrival_runway, 2),
                                   approach, Slice(approach, 0, 1), << >>)
             q == PopLeg(p)
         IN  IF Len(legs) = 0 THEN p
             ELSE IF q.raised THEN q
             ELSE SetModes(ExtendLegs(q, legs))

\* the coordinates of the first k legs, each resolved against the one before
\* it and the first against the autopilot's lat/long entry of the aircraft
RECURSIVE WpCoords(_, _, _, _)
WpCoords(axis, names, k, first_ref) ==
    IF k = 0 THEN << >>
    ELSE LET before == WpCoords(axis, names, k - 1, first_ref)
         IN  Append(before,
                    get_wp_coord(axis, names[k],
                                 IF k = 1 THEN first_ref ELSE before[k - 1]))

SfpCoords(p, ap_lat, ap_long) ==
    IF p.raised THEN p
    ELSE [p EXCEPT !.lat = @ \o WpCoords("lat", p.name, Len(p.name), ap_lat),
                   !.long = @ \o WpCoords("long", p.name, Len(p.name), ap_long)]

\* OppRunway without the swap of L and R
OppRunwayNoSwap(arrival_runway) ==
    LET number == ZFill(PyStr(((PyInt(Slice(arrival_runway, 2, 4)) * 10 + 180)
                               % 360) \div 10), 2)
        rwy_letter == Last(arrival_runway)
    IN  IF rwy_letter \in {"L", "R", "C"} THEN number \o <<rwy_letter>>
        ELSE number

\* the reciprocal runway designator computed while the arrival is appended
OppRunway(arrival_runway) ==
    LET number == ZFill(PyStr(((PyInt(Slice(arrival_runway, 2, 4)) * 10 + 180)
                               % 360) \div 10), 2)
        rwy_letter == Last(arrival_runway)
    IN  IF rwy_letter = "L" THEN number \o <<"R">>
        ELSE IF rwy_letter = "R" THEN number \o <<"L">>
        ELSE IF rwy_letter = "C" THEN number \o <<"C">>
        ELSE number

\* SfpArrival with the runway legs taking the speed of the leg before them
SfpArrivalInheritSpeed(p, arrival_airport, arrival_runway) ==
    IF p.raised \/ arrival_runway = << >> THEN p
    ELSE LET thr == get_runway_coord(arrival_airport, SliceFrom(arrival_runway, 2))
             opp == get_runway_coord(arrival_airport, OppRunway(arrival_runway))
             one == [p EXCEPT
                       !.name = Append(@, arrival_airport \o <<"_">> \o arrival_runway),
                       !.lat = Append(@, thr.lat), !.long = Append(@, thr.long),
                       !.alt = Append(@, thr.alt), !.spd = Append(@, Last(@))]
         IN  IF ~thr.found THEN [p EXCEPT !.raised = TRUE]
             ELSE IF p.name = << >> THEN [p EXCEPT !.raised = TRUE]   \* name[-1]
             ELSE IF Last(p.name) = arrival_runway
                  THEN LET q == [p EXCEPT !.lat[Len(p.lat)] = thr.lat,
                                          !.long[Len(p.long)] = thr.long]
                       IN  IF p.alt = << >> THEN [q EXCEPT !.raised = TRUE]
                           ELSE [q EXCEPT !.alt[Len(p.alt)] = thr.alt]
             ELSE IF ~opp.found THEN [one EXCEPT !.raised = TRUE]
             ELSE [one EXCEPT
                     !.name = Append(@, arrival_airport \o <<"_">> \o arrival_runway
                                        \o <<"_", "E", "N", "D">>),
                     !.lat = Append(@, opp.lat), !.long = Append(@, opp.long),
                     !.alt = Append(@, opp.alt), !.spd = Append(@, Last(@))]

\* the arrival-runway leg and the leg at the reciprocal threshold
SfpArrival(p, arrival_airport, arrival_runway) ==
    IF p.raised \/ arrival_runway = << >> THEN p
    ELSE LET thr == get_runway_coord(arrival_airport, SliceFrom(arrival_runway, 2))
             opp == get_runway_coord(arrival_airport, OppRunway(arrival_runway))
             one == [p EXCEPT
                       !.name = Append(@, arrival_airport \o <<"_">> \o arrival_runway),
                       !.lat = Append(@, thr.lat), !.long = Append(@, thr.long),
                       !.alt = Append(@, thr.alt), !.spd = Append(@, 0)]
         IN  IF ~thr.found THEN [p EXCEPT !.raised = TRUE]
             ELSE IF p.name = << >> THEN [p EXCEPT !.raised = TRUE]   \* name[-1]
             ELSE IF Last(p.name) = arrival_runway
                  THEN LET q == [p EXCEPT !.lat[Len(p.lat)] = thr.lat,
                                          !.long[Len(p.long)] = thr.long]
                       IN  IF p.alt = << >> THEN [q EXCEPT !.raised = TRUE]
                           ELSE [q EXCEPT !.alt[Len(p.alt)] = thr.alt]
             ELSE IF ~opp.found THEN [one EXCEPT !.raised = TRUE]
             ELSE [one EXCEPT
                     !.name = Append(@, arrival_airport \o <<"_">> \o arrival_runway
                                        \o <<"_", "E", "N", "D">>),
                     !.lat = Append(@, opp.lat), !.long = Append(@, opp.long),
                     !.alt = Append(@, opp.alt), !.spd = Append(@, 0)]

\* entries k..Len(alts) after the backward scan: an entry that was -1 takes
\* the value of the entry after it
RECURSIVE FillFrom(_, _)
FillFrom(alts, k) ==
    IF k > Len(alts) THEN << >>
    ELSE LET rest == FillFrom(alts, k + 1)
         IN  <<IF alts[k] = -1 THEN rest[1] ELSE alts[k]>> \o rest

\* "Populate alt and speed target from last waypoint"
SfpBackfill(p) ==
    IF p.raised THEN p
    ELSE IF Len(p.alt) > 1
         THEN [p EXCEPT !.alt = FillFrom([p.alt EXCEPT ![Len(p.alt)] = 0], 1)]
         ELSE p

\* SfpOrigin with the origin leg appended instead of inserted at 0
SfpOriginAppended(p, departure_airport, departure_runway, dep) ==
    IF p.raised THEN p
    ELSE [p EXCEPT
            !.name = Append(@, departure_airport \o <<" ">> \o departure_runway),
            !.lat = Append(@, dep.lat), !.long = Append(@, dep.long),
            !.alt = Append(@, dep.alt), !.spd = Append(@, 0)]

\* "Add departure airport"
SfpOrigin(p, departure_airport, departure_runway, dep) ==
    IF p.raised THEN p
    ELSE [p EXCEPT
            !.name = InsertAt(@, 0, departure_airport \o <<" ">> \o departure_runway),
            !.lat = InsertAt(@, 0, dep.lat), !.long = InsertAt(@, 0, dep.long),
            !.alt = InsertAt(@, 0, dep.alt), !.spd = InsertAt(@, 0, 0)]

\* the plan assembled from empty leg lists, through every stage in order
Assemble(p0, dep, ap_lat, ap_long, departure_airport, departure_runway, sid, arrival_airport, arrival_runway, star, approach, flight_plan, cruise_alt) ==
    SfpOrigin(
      SfpBackfill(
        SfpArrival(
          SfpCoords(
            SfpFinalApproach(
              SfpInitialApproach(
                SfpStar(
                  SfpEnroute(
                    SfpSid(p0, departure_airport, departure_runway, sid),
                    flight_plan, cruise_alt),
                  arrival_airport, arrival_runway, star),
                arrival_airport, arrival_runway, approach),
              arrival_airport, arrival_runway, approach),
            ap_lat, ap_long),
          arrival_airport, arrival_runway)),
      departure_airport, departure_runway, dep)

\* the assignments that open set_flight_plan: the stored arguments, the leg
\* pointer ("Add 1 to account for origin") and the updated flag
SfpStore(a, index, departure_airport, departure_runway, sid, arrival_airport, arrival_runway, star, approach, flight_plan, flight_plan_index, cruise_alt) ==
    Put(Put(Put(Put(Put(Put(Put(Put(Put(Put(Put(a,
        "departure_airport", index, departure_airport),
        "departure_runway", index, departure_runway),
        "sid", index, sid),
        "arrival_airport", index, arrival_airport),
        "arrival_runway", index, arrival_runway),
        "star", index, star),
        "approach", index, approach),
        "cruise_alt", index, cruise_alt),
        "flight_plan_enroute", index, flight_plan),
        "flight_plan_index", index, flight_plan_index + 1),
        "flight_plan_updated", index, TRUE)

\* the emptied leg lists, with the mode fields of the aircraft as they are
EmptyPlan(a, index) ==
    [name |-> << >>, lat |-> << >>, long |-> << >>, alt |-> << >>,
     spd |-> << >>, hv |-> Get(a, "hv_next_wp", index),
     lateral |-> Get(a, "lateral_mode", index),
     throttle |-> Get(a, "auto_throttle_mode", index), raised |-> FALSE]

\* the Autopilot state with the assembled plan p written to the aircraft
SfpWrite(a, index, p) ==
    Put(Put(Put(Put(Put(Put(Put(Put(a,
        "flight_plan_name", index, p.name),
        "flight_plan_lat", index, p.lat),
        "flight_plan_long", index, p.long),
        "flight_plan_target_alt", index, p.alt),
        "flight_plan_target_speed", index, p.spd),
        "hv_next_wp", index, p.hv),
        "lateral_mode", index, p.lateral),
        "auto_throttle_mode", index, p.throttle)

SfpResult(a, stored, index, dep, p) ==
    IF ~dep.found THEN [ap |-> a, raised |-> TRUE]
    ELSE [ap |-> SfpWrite(stored, index, p), raised |-> p.raised]

\* Autopilot.set_flight_plan(index, ...): [ap, raised], ap the Autopilot
\* state when the call returns or raises
set_flight_plan(a, index, departure_airport, departure_runway, sid, arrival_airport, arrival_runway, star, approach, flight_plan, flight_plan_index, cruise_alt) ==
    SfpResult(a,
        SfpStore(a, index, departure_airport, departure_runway, sid,
                 arrival_airport, arrival_runway, star, approach, flight_plan,
                 flight_plan_index, cruise_alt),
        index,
        get_runway_coord(departure_airport, SliceFrom(departure_runway, 2)),
        Assemble(EmptyPlan(a, index),
                 get_runway_coord(departure_airport, SliceFrom(departure_runway, 2)),
                 Get(a, "lat", index), Get(a, "long", index),
                 departure_airport, departure_runway, sid, arrival_airport,
                 arrival_runway, star, approach, flight_plan, cruise_alt))

----------------------------------------------------------------------------
(* Autopilot.add_aircraft and Autopilot.del_aircraft *)

ZeroCoord(axis) == Coord(axis, <<"0">>, << >>)

\* the value add_aircraft appends to field f
NewEntry(f, lat, long, alt, heading, cas, departure_airport, departure_runway, sid, arrival_airport, arrival_runway, star, approach, cruise_alt) ==
    CASE f = "alt" -> alt
      [] f \in {"heading", "track_angle"} -> heading
      [] f = "cas" -> cas
      [] f = "lat" -> lat
      [] f = "long" -> long
      [] f \in {"lat_next", "lat_prev"} -> ZeroCoord("lat")
      [] f \in {"long_next", "long_prev"} -> ZeroCoord("long")
      [] f \in {"hv_next_wp", "expedite_descent", "holding"} -> FALSE
      [] f \in {"flight_plan_enroute", "flight_plan_name", "flight_plan_lat",
                "flight_plan_long", "flight_plan_target_alt",
                "flight_plan_target_speed", "holding_info"} -> << >>
      [] f = "auto_throttle_mode" -> SPEED
      [] f = "lateral_mode" -> HEADING
      [] f = "departure_airport" -> departure_airport
      [] f = "departure_runway" -> departure_runway
      [] f = "sid" -> sid
      [] f = "arrival_airport" -> arrival_airport
      [] f = "arrival_runway" -> arrival_runway
      [] f = "star" -> star
      [] f = "approach" -> approach
      [] f = "cruise_alt" -> cruise_alt
      [] f = "flight_plan_updated" -> TRUE
      [] OTHER -> 0

\* Autopilot.add_aircraft: [ap, raised]
add_aircraft(a, lat, long, alt, heading, cas, departure_airport, departure_runway, sid, arrival_airport, arrival_runway, star, approach, flight_plan, flight_plan_index, cruise_alt) ==
    LET a1 == [f \in DOMAIN a |->
                 IF f \in Range(AddFields)
                 THEN Append(a[f], NewEntry(f, lat, long, alt, heading, cas,
                                 departure_airport, departure_runway, sid,
                                 arrival_airport, arrival_runway, star, approach,
                                 cruise_alt))
                 ELSE a[f]]
    IN  set_flight_plan(a1, -1, departure_airport, departure_runway, sid,
                        arrival_airport, arrival_runway, star, approach,
                        flight_plan, flight_plan_index, cruise_alt)

\* Autopilot.del_aircraft(index)
del_aircraft(a, index) ==
    [f \in DOMAIN a |->
       IF f \in Range(DelFields) THEN RemoveAt(a[f], index) ELSE a[f]]

----------------------------------------------------------------------------
(* Autopilot.update.  Traffic's integration, the performance model and the  *)
(* geodesy functions move the aircraft between ticks: what update reads     *)
(* from them is the input e of the tick.  The steps are applied to the      *)
(* entries s of one aircraft, in the order of the source; the steps the     *)
(* source applies array-wide act on every aircraft independently.  s also   *)
(* carries raised (a statement raised), the value written to                *)
(* traffic.vertical_mode, and the holding turns made in this tick.          *)

CONSTANT_MACH == 1

CONSTANT_CAS == 2

ACCELERATE == 3

DECELERATE == 4

\* Cal.cal_angle_diff: the signed shortest difference, in (-180, 180]
cal_angle_diff(a, b) ==
    LET d == (a - b) % 360 IN IF d > 180 THEN d - 360 ELSE d

Abs(x) == IF x < 0 THEN -x ELSE x

Min(x, y) == IF x < y THEN x ELSE y

\* Unit.nm2m
nm2m(x) == x * 1852

\* i is a valid index of the Python list l
HasIndex(l, i) == -Len(l) <= i /\ i < Len(l)

\* l[i], a negative i counting from the end
PyGet(l, i) == l[Slot(l, i)]

\* l.index(x)
IndexOf(l, x) == (CHOOSE k \in 1..Len(l) :
                    l[k] = x /\ \A j \in 1..(k - 1) : l[j] # x) - 1

\* self.<field>[i] for every field, with the per-tick outputs cleared
Entries(a, i) ==
    [f \in DOMAIN a |-> a[f][i + 1]] @@
    [raised |-> FALSE, traffic_vertical_mode |-> "LEVEL",
     turned_out |-> 0, turned_in |-> 0, exited |-> FALSE, entered |-> FALSE]

\* every subscript the leg-tracking step evaluates is in range
TargetsIndexed(s) ==
    LET val == s.flight_plan_index
    IN  /\ HasIndex(s.flight_plan_lat, val - 1)
        /\ HasIndex(s.flight_plan_long, val - 1)
        /\ HasIndex(s.flight_plan_lat, val)
        /\ HasIndex(s.flight_plan_long, val)
        /\ val # Len(s.flight_plan_name) - 1 =>
              /\ HasIndex(s.flight_plan_lat, val + 1)
              /\ HasIndex(s.flight_plan_long, val + 1)
        /\ Len(s.flight_plan_target_alt) > 1 =>
              HasIndex(s.flight_plan_target_alt, val)

\* UpdTargets leaving the lateral mode of an aircraft past its plan alone
UpdTargetsKeepMode(s) ==
    LET val == s.flight_plan_index
    IN  IF val < Len(s.flight_plan_name)
        THEN IF ~TargetsIndexed(s) THEN [s EXCEPT !.raised = TRUE]
             ELSE [s EXCEPT
                     !.lat_prev = PyGet(s.flight_plan_lat, val - 1),
                     !.long_prev = PyGet(s.flight_plan_long, val - 1),
                     !.lat = PyGet(s.flight_plan_lat, val),
                     !.long = PyGet(s.flight_plan_long, val),
                     !.lat_next = IF val = Len(s.flight_plan_name) - 1 THEN @
                                  ELSE PyGet(s.flight_plan_lat, val + 1),
                     !.long_next = IF val = Len(s.flight_plan_name) - 1 THEN @
                                   ELSE PyGet(s.flight_plan_long, val + 1),
                     !.hv_next_wp = val # Len(s.flight_plan_name) - 1,
                     !.alt = IF Len(s.flight_plan_target_alt) > 1
                             THEN PyGet(s.flight_plan_target_alt, val) ELSE @]
        ELSE s

\* "Update target based on flight plan"
UpdTargets(s) ==
    LET val == s.flight_plan_index
    IN  IF val < Len(s.flight_plan_name)
        THEN IF ~TargetsIndexed(s) THEN [s EXCEPT !.raised = TRUE]
             ELSE [s EXCEPT
                     !.lat_prev = PyGet(s.flight_plan_lat, val - 1),
                     !.long_prev = PyGet(s.flight_plan_long, val - 1),
                     !.lat = PyGet(s.flight_plan_lat, val),
                     !.long = PyGet(s.flight_plan_long, val),
                     !.lat_next = IF val = Len(s.flight_plan_name) - 1 THEN @
                                  ELSE PyGet(s.flight_plan_lat, val + 1),
                     !.long_next = IF val = Len(s.flight_plan_name) - 1 THEN @
                                   ELSE PyGet(s.flight_plan_long, val + 1),
                     !.hv_next_wp = val # Len(s.flight_plan_name) - 1,
                     !.alt = IF Len(s.flight_plan_target_alt) > 1
                             THEN PyGet(s.flight_plan_target_alt, val) ELSE @]
        ELSE [s EXCEPT !.lateral_mode = HEADING]

\* the speed mode selected from the target and the current speed
SelectSpeedMode(target, current, constant) ==
    IF target < current THEN DECELERATE
    ELSE IF target = current THEN constant ELSE ACCELERATE

\* "Procedural speed", "Handle change in speed mode", "Speed mode"
UpdSpeeds(s, e) ==
    IF s.raised THEN s
    ELSE LET auto == s.auto_throttle_mode = AUTO
             cas1 == Min(IF auto /\ e.procedure_speed >= 5
                         THEN e.procedure_speed ELSE s.cas, e.max_cas)
             mach1 == Min(IF auto /\ e.procedure_speed < 5
                          THEN e.procedure_speed ELSE s.mach, e.max_mach)
             mach2 == IF e.speed_mode = "CAS" THEN e.mach_of_cas ELSE mach1
             cas2 == IF e.speed_mode = "MACH" THEN e.cas_of_mach ELSE cas1
         IN  [s EXCEPT
                !.procedure_speed = e.procedure_speed,
                !.cas = cas2, !.mach = mach2,
                !.speed_mode =
                    IF e.speed_mode = "CAS"
                    THEN SelectSpeedMode(cas2, e.traffic_cas, CONSTANT_CAS)
                    ELSE SelectSpeedMode(mach2, e.traffic_mach, CONSTANT_MACH)]

\* "Vertical mode"
UpdVertical(s, e) ==
    IF s.raised THEN s
    ELSE [s EXCEPT !.traffic_vertical_mode =
                      IF s.alt > e.traffic_alt THEN "CLIMB"
                      ELSE IF s.alt = e.traffic_alt THEN "LEVEL" ELSE "DESCENT"]

\* UpdDistance keeping the cached distance of the plan before
UpdDistanceStale(s, e) ==
    IF s.raised THEN s
    ELSE [s EXCEPT !.flight_plan_updated = FALSE]

\* the cached distance and the updated flag
UpdDistance(s, e) ==
    IF s.raised THEN s
    ELSE [s EXCEPT !.dist = IF s.flight_plan_updated THEN e.dist ELSE @,
                   !.flight_plan_updated = FALSE]

\* np.sign
Sign(x) == IF x < 0 THEN -1 ELSE IF x = 0 THEN 0 ELSE 1

\* np.exp(k / 40) in thousandths, rounded, at the arguments the cross-track
\* deviations below produce
ExpOf40th ==
    (-200 :> 7) @@ (-100 :> 82) @@ (-40 :> 368) @@ (0 :> 1000) @@
    (40 :> 2718) @@ (100 :> 12182) @@ (200 :> 148413)

\* "Adjust track angle for cross track": the correction, in thousandths of a
\* degree, for a cross-track deviation in metres
cross_track_correction(cross_track) ==
    IF Abs(cross_track) > 200 THEN Sign(cross_track) * 20 * 1000
    ELSE 20 * (1000 - ExpOf40th[-cross_track])

\* lnav_track_angle
LnavTrackAngle(s, e) ==
    IF e.in_turn THEN (IF s.hv_next_wp THEN e.next_track ELSE s.track_angle)
    ELSE IF e.dist < 1 THEN s.track_angle ELSE e.curr_track

\* self.track_angle and self.heading
UpdTrack(s, e) ==
    IF s.raised THEN s
    ELSE IF s.lateral_mode = HEADING THEN [s EXCEPT !.track_angle = 0]
    ELSE [s EXCEPT !.track_angle = LnavTrackAngle(s, e),
                   !.heading = LnavTrackAngle(s, e) + e.wind_correction]

\* UpdAdvance caching the distance to the target just passed
UpdAdvanceKeepDist(s, e) ==
    IF s.raised THEN s
    ELSE IF s.lateral_mode = LNAV /\ e.dist > s.dist /\ e.aligned
         THEN [s EXCEPT !.flight_plan_index = @ + 1, !.dist = e.dist]
         ELSE [s EXCEPT !.dist = e.dist]

\* update_next_wp, the leg pointer and the cached distance
UpdAdvance(s, e) ==
    IF s.raised THEN s
    ELSE IF s.lateral_mode = LNAV /\ e.dist > s.dist /\ e.aligned
         THEN [s EXCEPT !.flight_plan_index = @ + 1, !.dist = e.dist_next]
         ELSE [s EXCEPT !.dist = e.dist]

\* not holding: the entry turn ("Turn outbound")
HoldEnter(s) ==
    IF s.holding_info = << >> THEN s
    ELSE IF ~(Abs(cal_angle_diff(s.heading, s.holding_info[5])) < 90) THEN s
    ELSE IF s.holding_info[1] \notin Range(s.flight_plan_name)
         THEN [s EXCEPT !.raised = TRUE]                    \* list.index
    ELSE IF s.flight_plan_index > IndexOf(s.flight_plan_name, s.holding_info[1])
         THEN [s EXCEPT !.heading = (s.holding_info[5] + 180) % 360,
                        !.holding_round = @ - 1,
                        !.flight_plan_index = @ - 1,
                        !.lateral_mode = HEADING,
                        !.holding = TRUE,
                        !.turned_out = 1, !.entered = TRUE]
    ELSE s

\* HoldOutbound pushing the leg pointer back at every outbound turn
HoldOutboundBack(s, e) ==
    IF s.holding_info = << >> THEN [s EXCEPT !.raised = TRUE]
    ELSE IF Abs(cal_angle_diff(s.heading, s.holding_info[5])) < 90 /\ e.dist < 1
         THEN [s EXCEPT !.heading = (s.holding_info[5] + 180) % 360,
                        !.holding_round = @ - 1,
                        !.flight_plan_index = @ - 1,
                        !.turned_out = 1]
    ELSE s

\* holding: "Turn outbound"
HoldOutbound(s, e) ==
    IF s.holding_info = << >> THEN [s EXCEPT !.raised = TRUE]
    ELSE IF Abs(cal_angle_diff(s.heading, s.holding_info[5])) < 90 /\ e.dist < 1
         THEN [s EXCEPT !.heading = (s.holding_info[5] + 180) % 360,
                        !.holding_round = @ - 1,
                        !.turned_out = 1]
    ELSE s

\* HoldInbound leaving the hold one round early
HoldInboundEarly(s, e) ==
    IF s.raised THEN s
    ELSE IF /\ Abs(cal_angle_diff(s.heading, s.holding_info[5] + 180)) < 90
            /\ e.dist * 1000 > nm2m(s.holding_info[7])
         THEN IF s.holding_round <= 1
              THEN [s EXCEPT !.heading = s.holding_info[5],
                             !.lateral_mode = LNAV,
                             !.holding = FALSE,
                             !.holding_info = << >>,
                             !.turned_in = 1, !.exited = TRUE]
              ELSE [s EXCEPT !.heading = s.holding_info[5], !.turned_in = 1]
    ELSE s

\* holding: "Turn inbound"
HoldInbound(s, e) ==
    IF s.raised THEN s
    ELSE IF /\ Abs(cal_angle_diff(s.heading, s.holding_info[5] + 180)) < 90
            /\ e.dist * 1000 > nm2m(s.holding_info[7])
         THEN IF s.holding_round <= 0
              THEN [s EXCEPT !.heading = s.holding_info[5],
                             !.lateral_mode = LNAV,
                             !.holding = FALSE,
                             !.holding_info = << >>,
                             !.turned_in = 1, !.exited = TRUE]
              ELSE [s EXCEPT !.heading = s.holding_info[5], !.turned_in = 1]
    ELSE s

\* "Holding"
UpdHolding(s, e) ==
    IF s.raised THEN s
    ELSE IF ~s.holding THEN HoldEnter(s)
    ELSE HoldInbound(HoldOutbound(s, e), e)

\* every step of update on the entries of one aircraft
UpdateEntries(s, e) ==
    UpdHolding(
      UpdAdvance(
        UpdTrack(
          UpdDistance(
            UpdVertical(
              UpdSpeeds(UpdTargets(s), e),
              e), e), e), e), e)

\* Autopilot.update: the entries of every aircraft after the tick, es[k] being
\* the input of the aircraft in slot k - 1
update(a, es) ==
    [k \in 1..Len(a.flight_plan_index) |-> UpdateEntries(Entries(a, k - 1), es[k])]

\* the Autopilot state holding the entries rs
WithEntries(a, rs) ==
    [f \in DOMAIN a |->
       [k \in 1..Len(a[f]) |-> IF k <= Len(rs) THEN rs[k][f] ELSE a[f][k]]]

----------------------------------------------------------------------------
(* Traffic store: the arrays the Aircraft facade reads and writes, the      *)
(* identity array and the identity counter                                  *)

TrafficFields ==
    {"index", "lat", "long", "alt", "heading", "cas", "mach", "vs",
     "fuel_consumed", "altimeter", "flight_phase", "frequency", "vertical_mode"}

TrafficInit == [f \in TrafficFields |-> << >>] @@ [n |-> 0]

\* np.where(self.traffic.index == self.index)[0][0]: the slot (0-based) of the
\* identity, or -1 when the identity is absent and the lookup raises
Resolve(t, identity) ==
    IF \E k \in 1..Len(t.index) : t.index[k] = identity
    THEN (CHOOSE k \in 1..Len(t.index) :
            /\ t.index[k] = identity
            /\ \A j \in 1..(k - 1) : t.index[j] # identity) - 1
    ELSE -1

\* Traffic.add_aircraft: a new slot with a fresh identity, which it returns
TrafficAdd(t, lat, long, alt, heading, cas) ==
    [f \in DOMAIN t |->
       CASE f = "n" -> t.n + 1
         [] f = "index" -> Append(t.index, t.n)
         [] f = "lat" -> Append(t.lat, lat)
         [] f = "long" -> Append(t.long, long)
         [] f = "alt" -> Append(t.alt, alt)
         [] f = "heading" -> Append(t.heading, heading)
         [] f = "cas" -> Append(t.cas, cas)
         [] OTHER -> Append(t[f], 0)]

\* Traffic.del_aircraft: the slot leaves every array
TrafficDel(t, slot) ==
    [f \in DOMAIN t |-> IF f = "n" THEN t.n ELSE RemoveAt(t[f], slot)]

----------------------------------------------------------------------------
(* History variables *)

NoHist == [op |-> "none", h |-> 0, raised |-> FALSE, arg |-> << >>, pre |-> << >>]

Hist(op, h, raised, arg, pre) ==
    [op |-> op, h |-> h, raised |-> raised, arg |-> arg, pre |-> pre]

\* no computation made
NoCalc == << >>

\* no holding clearance given, no turn made
NoObs == [cleared |-> 0, outbound |-> 0, inbound |-> 0]

\* the values an aircraft stores through set_flight_plan
StoredFields ==
    {"departure_airport", "departure_runway", "sid", "arrival_airport",
     "arrival_runway", "star", "approach", "flight_plan_enroute", "cruise_alt"}

\* an exception is fatal to the run: nothing runs after one
Alive == ~hist.raised

----------------------------------------------------------------------------
(* Aircraft facade *)

\* what Aircraft.__init__ leaves, r being what Autopilot.add_aircraft returned
Constructed(t, hs, o, x, r) ==
    [traffic |-> TrafficAdd(t, x.lat, x.long, x.alt, x.heading, x.cas),
     ap |-> r.ap,
     handles |-> IF r.raised THEN hs
                 ELSE Append(hs, [index |-> t.n, vectoring |-> << >>]),
     own |-> Append(o, [f \in StoredFields |->
                          IF f = "flight_plan_enroute" THEN x.flight_plan
                          ELSE x[f]]),
     raised |-> r.raised]

\* Aircraft.__init__: Traffic.add_aircraft, which adds the Autopilot entry
\* and assembles the plan, then the handle.  [traffic, ap, handles, own, raised]
NewAircraft(t, a, hs, o, x) ==
    Constructed(t, hs, o, x,
        add_aircraft(a, x.lat, x.long, x.alt, x.heading, x.cas,
                     x.departure_airport, x.departure_runway, x.sid,
                     x.arrival_airport, x.arrival_runway, x.star, x.approach,
                     x.flight_plan, x.flight_plan_index, x.cruise_alt))

\* an optional argument: << >> when omitted (None), <<v>> when given
Opt(arg, stored) == IF arg = << >> THEN stored ELSE arg[1]

\* the arguments Aircraft.set_flight_plan passes on for the aircraft at index
FacadePlanArgs(a, index, x) ==
    [departure_airport |-> Get(a, "departure_airport", index),
     departure_runway |-> Get(a, "departure_runway", index),
     sid |-> Get(a, "sid", index),
     arrival_airport |-> Opt(x.arrival_airport, Get(a, "arrival_airport", index)),
     arrival_runway |-> Opt(x.arrival_runway, Get(a, "arrival_runway", index)),
     star |-> Opt(x.star, Get(a, "star", index)),
     approach |-> Opt(x.approach, Get(a, "approach", index)),
     flight_plan_enroute |-> Opt(x.flight_plan, Get(a, "flight_plan_enroute", index)),
     flight_plan_index |-> Opt(x.flight_plan_index, Get(a, "flight_plan_index", index)),
     cruise_alt |-> Opt(x.cruise_alt, Get(a, "cruise_alt", index))]

\* what the aircraft has stored once it has re-planned with arguments x: an
\* omitted argument keeps what the aircraft stored before
OwnAfter(o, x) ==
    [o EXCEPT !.arrival_airport = Opt(x.arrival_airport, @),
              !.arrival_runway = Opt(x.arrival_runway, @),
              !.star = Opt(x.star, @),
              !.approach = Opt(x.approach, @),
              !.flight_plan_enroute = Opt(x.flight_plan, @),
              !.cruise_alt = Opt(x.cruise_alt, @)]

\* the leg pointer grows with every re-plan that omits it: re-plans stop here
MaxPlanIndex == 3

\* Autopilot.set_flight_plan with the arguments y the facade passes on
PlanWith(a, index, y) ==
    set_flight_plan(a, index, y.departure_airport, y.departure_runway,
                    y.sid, y.arrival_airport, y.arrival_runway, y.star,
                    y.approach, y.flight_plan_enroute, y.flight_plan_index,
                    y.cruise_alt)

\* the effect of the re-plan, r being what Autopilot.set_flight_plan returned
Replanned(h, x, y, r) ==
    /\ y.flight_plan_index < MaxPlanIndex
    /\ ap' = r.ap
    /\ hist' = Hist("set_flight_plan", h, r.raised, << >>, << >>)
    /\ own' = [own EXCEPT ![handles[h].index + 1] = OwnAfter(@, x)]

\* the identity lookup raised: nothing changes
LookupFailed(op, h) ==
    /\ hist' = Hist(op, h, TRUE, << >>, << >>)
    /\ UNCHANGED <<traffic, ap, handles, own, obs, rwy, calc, srv>>

SetFlightPlanAt(h, x, index, y) ==
    /\ Replanned(h, x, y, PlanWith(ap, index, y))
    /\ UNCHANGED <<traffic, handles, obs, rwy, calc, srv>>

\* Aircraft.set_flight_plan(...) on handle h
FacadeSetFlightPlan(h, x) ==
    /\ Alive
    /\ IF Resolve(traffic, handles[h].index) < 0
       THEN LookupFailed("set_flight_plan", h)
       ELSE SetFlightPlanAt(h, x, Resolve(traffic, handles[h].index),
                FacadePlanArgs(ap, Resolve(traffic, handles[h].index), x))


\* the absent value
None == <<"None">>

\* Aircraft.get_next_wp for the aircraft at index
get_next_wp(a, index) ==
    IF Get(a, "flight_plan_index", index) >= Len(Get(a, "flight_plan_name", index))
    THEN None
    ELSE PyGet(Get(a, "flight_plan_name", index), Get(a, "flight_plan_index", index))

\* the effect of set_holding, info being what Nav.get_holding_procedure
\* returned (<< >>: it raised NotFound, after the round count was stored)
HoldingSet(h, holding_time, index, info) ==
    /\ ap' = IF info = << >> THEN Put(ap, "holding_round", index, holding_time)
             ELSE Put(Put(ap, "holding_round", index, holding_time),
                      "holding_info", index, info)
    /\ hist' = Hist("set_holding", h, info = << >>, info, << >>)
    /\ obs' = [cleared |-> holding_time, outbound |-> 0, inbound |-> 0]
    /\ UNCHANGED <<traffic, handles, own, rwy, calc, srv>>

\* Aircraft.set_holding(holding_time, holding_fix, region) on handle h
FacadeSetHolding(h, holding_time, holding_fix, region) ==
    /\ Alive
    /\ IF Resolve(traffic, handles[h].index) < 0
       THEN LookupFailed("set_holding", h)
       ELSE HoldingSet(h, holding_time, Resolve(traffic, handles[h].index),
                       get_holding_procedure(holding_fix, region))

\* the plan and leg pointer of the aircraft at index, and the last operation
Snapshot(a, index) ==
    [name |-> Get(a, "flight_plan_name", index),
     lat |-> Get(a, "flight_plan_lat", index),
     long |-> Get(a, "flight_plan_long", index),
     alt |-> Get(a, "flight_plan_target_alt", index),
     spd |-> Get(a, "flight_plan_target_speed", index),
     flight_plan_index |-> Get(a, "flight_plan_index", index),
     next_wp |-> get_next_wp(a, index),
     op |-> hist.op, arg |-> hist.arg]

PreOf(h) ==
    IF Resolve(traffic, handles[h].index) < 0 THEN << >>
    ELSE Snapshot(ap, Resolve(traffic, handles[h].index))

\* the interim waypoint: Cal.cal_dest_given_dist_bearing from the aircraft
VectCoord(axis) == Coord(axis, <<"V", "E", "C", "T">>, <<"@">>)

\* "Add new virtual waypoint": the three inserts that cannot raise
VectLegs(a, index, i) ==
    Put(Put(Put(a,
        "flight_plan_lat", index,
            InsertAt(Get(a, "flight_plan_lat", index), i, VectCoord("lat"))),
        "flight_plan_long", index,
            InsertAt(Get(a, "flight_plan_long", index), i, VectCoord("long"))),
        "flight_plan_name", index,
            InsertAt(Get(a, "flight_plan_name", index), i, <<"V", "E", "C", "T">>))

\* target_speed[i] = v_2, then insert(i, target_speed[i])
VectSpeed(a, index, i, v_2) ==
    IF ~HasIndex(Get(a, "flight_plan_target_speed", index), i)
    THEN [ap |-> a, raised |-> TRUE]
    ELSE [ap |-> Put(a, "flight_plan_target_speed", index,
                     InsertAt(SetAt(Get(a, "flight_plan_target_speed", index), i, v_2),
                              i, v_2)),
          raised |-> FALSE]

\* target_alt.insert(i, target_alt[i]), then the target speeds
VectAlt(a, index, i, v_2) ==
    IF ~HasIndex(Get(a, "flight_plan_target_alt", index), i)
    THEN [ap |-> a, raised |-> TRUE]
    ELSE VectSpeed(Put(a, "flight_plan_target_alt", index,
                       InsertAt(Get(a, "flight_plan_target_alt", index), i,
                                PyGet(Get(a, "flight_plan_target_alt", index), i))),
                   index, i, v_2)

\* the body of set_vectoring once its guard has passed: [ap, raised]
VectInsert(a, index, v_2) ==
    VectAlt(VectLegs(a, index, Get(a, "flight_plan_index", index)),
            index, Get(a, "flight_plan_index", index), v_2)

VectArg(fix, v_2, effective) == [fix |-> fix, v_2 |-> v_2, effective |-> effective]

Vectored(h, fix, v_2, pre, r) ==
    /\ ap' = r.ap
    /\ handles' = [handles EXCEPT ![h].vectoring = fix]
    /\ hist' = Hist("set_vectoring", h, r.raised, VectArg(fix, v_2, TRUE), pre)
    /\ UNCHANGED <<traffic, own, obs, rwy, calc, srv>>

NotVectored(h, fix, v_2, pre) ==
    /\ hist' = Hist("set_vectoring", h, FALSE, VectArg(fix, v_2, FALSE), pre)
    /\ UNCHANGED <<traffic, ap, handles, own, obs, rwy, calc, srv>>

\* VectGuard without the test of the vectoring field
VectGuardNextOnly(h, v_2, fix, index, pre) ==
    IF index < 0 THEN LookupFailed("set_vectoring", h)
    ELSE IF get_next_wp(ap, index) # fix THEN NotVectored(h, fix, v_2, pre)
    ELSE Vectored(h, fix, v_2, pre, VectInsert(ap, index, v_2))

\* the guard of set_vectoring, evaluated left to right, and its body
VectGuard(h, v_2, fix, index, pre) ==
    IF handles[h].vectoring = fix THEN NotVectored(h, fix, v_2, pre)
    ELSE IF index < 0 THEN LookupFailed("set_vectoring", h)
    ELSE IF get_next_wp(ap, index) # fix THEN NotVectored(h, fix, v_2, pre)
    ELSE Vectored(h, fix, v_2, pre, VectInsert(ap, index, v_2))

\* Aircraft.set_vectoring(vectoring_time, v_2, fix) on handle h
FacadeSetVectoring(h, vectoring_time, v_2, fix) ==
    /\ Alive
    /\ VectGuard(h, v_2, fix, Resolve(traffic, handles[h].index), PreOf(h))

\* Aircraft.set_heading past the lookup
set_heading(a, index, heading) ==
    Put(Put(a, "heading", index, heading), "lateral_mode", index, HEADING)

\* Aircraft.set_speed past the lookup
set_speed(a, index, speed) ==
    Put(Put(a, "cas", index, speed), "auto_throttle_mode", index, SPEED)

\* Aircraft.set_vs past the lookup
set_vs(a, index, vs) == Put(a, "vs", index, vs)

\* the assignments of Aircraft.set_alt
AltSet(a, index, i, alt) ==
    Put(Put(a, "flight_plan_target_alt", index,
            [Get(a, "flight_plan_target_alt", index) EXCEPT
                ![Slot(Get(a, "flight_plan_target_alt", index), i)] = alt]),
        "alt", index, alt)

\* Aircraft.set_alt past the lookup: the list assignment raises IndexError
\* when the leg pointer is not a subscript of the altitude list
set_alt(a, index, alt) ==
    IF HasIndex(Get(a, "flight_plan_target_alt", index), Get(a, "flight_plan_index", index))
    THEN [ap |-> AltSet(a, index, Get(a, "flight_plan_index", index), alt), raised |-> FALSE]
    ELSE [ap |-> a, raised |-> TRUE]

\* Aircraft.set_direct past the lookup
set_direct(a, index, waypoint) == Put(a, "lateral_mode", index, LNAV)

\* Aircraft.resume_own_navigation past the lookup
resume_own_navigation(a, index) ==
    Put(Put(a, "lateral_mode", index, LNAV), "auto_throttle_mode", index, AUTO)

\* the setters that write an Autopilot array, and those that write a Traffic
\* array (with the array)
AutopilotSetters ==
    {"set_heading", "set_speed", "set_vs", "set_alt", "set_direct",
     "resume_own_navigation"}

TrafficSetters ==
    [set_altimeter |-> "altimeter", set_flight_phase |-> "flight_phase",
     set_frequency |-> "frequency"]

\* the getters that read a Traffic array, with the array
TrafficGetters ==
    [get_heading |-> "heading", get_cas |-> "cas", get_mach |-> "mach",
     get_vs |-> "vs", get_alt |-> "alt", get_long |-> "long", get_lat |-> "lat",
     get_fuel_consumed |-> "fuel_consumed"]

Setters == AutopilotSetters \cup DOMAIN TrafficSetters

Getters == DOMAIN TrafficGetters \cup {"get_next_wp", "get_wake"}

\* what the setter op leaves past the lookup.  [ap, traffic, raised]
SetterResult(op, a, t, index, arg) ==
    CASE op = "set_heading" -> [ap |-> set_heading(a, index, arg), traffic |-> t, raised |-> FALSE]
      [] op = "set_speed" -> [ap |-> set_speed(a, index, arg), traffic |-> t, raised |-> FALSE]
      [] op = "set_vs" -> [ap |-> set_vs(a, index, arg), traffic |-> t, raised |-> FALSE]
      [] op = "set_alt" -> [ap |-> set_alt(a, index, arg).ap, traffic |-> t, raised |-> set_alt(a, index, arg).raised]
      [] op = "set_direct" -> [ap |-> set_direct(a, index, arg), traffic |-> t, raised |-> FALSE]
      [] op = "resume_own_navigation" -> [ap |-> resume_own_navigation(a, index), traffic |-> t, raised |-> FALSE]
      [] OTHER -> [ap |-> a, traffic |-> Put(t, TrafficSetters[op], index, arg), raised |-> FALSE]

\* what the getter op returns past the lookup
GetterResult(op, a, t, index) ==
    CASE op = "get_next_wp" -> get_next_wp(a, index)
      [] op = "get_wake" -> <<"wake">>
      [] OTHER -> Get(t, TrafficGetters[op], index)

\* the effect of a setter, r being what it left
Commanded(h, op, arg, r) ==
    /\ ap' = r.ap
    /\ traffic' = r.traffic
    /\ hist' = Hist(op, h, r.raised, <<arg>>, << >>)
    /\ UNCHANGED <<handles, own, obs, rwy, calc, srv>>

\* Aircraft.<setter>(arg) on handle h
FacadeSet(h, op, arg, index) ==
    /\ Alive
    /\ IF index < 0 THEN LookupFailed(op, h)
       ELSE Commanded(h, op, arg, SetterResult(op, ap, traffic, index, arg))

\* Aircraft.<getter>() on handle h, the value returned recorded
FacadeGet(h, op, index) ==
    /\ Alive
    /\ IF index < 0 THEN LookupFailed(op, h)
       ELSE /\ hist' = Hist(op, h, FALSE, GetterResult(op, ap, traffic, index), << >>)
            /\ UNCHANGED <<traffic, ap, handles, own, obs, rwy, calc, srv>>

\* the effect of one tick, rs being what Autopilot.update computed
Ticked(rs) ==
    /\ ap' = WithEntries(ap, rs)
    /\ traffic' = [traffic EXCEPT !.vertical_mode =
                      [k \in 1..Len(rs) |-> rs[k].traffic_vertical_mode]]
    /\ hist' = Hist("update", 0, \E k \in 1..Len(rs) : rs[k].raised,
                    [entered |-> rs[1].entered, exited |-> rs[1].exited,
                     moved |-> rs[1].flight_plan_index - ap.flight_plan_index[1],
                     fresh |-> ap.flight_plan_updated[1]],
                    << >>)
    /\ obs' = [obs EXCEPT !.outbound = @ + rs[1].turned_out,
                          !.inbound = @ + rs[1].turned_in]
    /\ UNCHANGED <<handles, own, rwy, srv>>

\* one tick of the run loop: Autopilot.update with the inputs e
UpdateWith(e) ==
    /\ Alive
    /\ Len(ap.flight_plan_index) > 0
    /\ Ticked(update(ap, [k \in 1..Len(ap.flight_plan_index) |-> e]))
    /\ UNCHANGED calc

----------------------------------------------------------------------------
(* Flight-plan assembly: one aircraft, constructed with any of the          *)
(* arguments below, then re-planned through the facade                      *)

AircraftPos(axis) == Coord(axis, <<"@">>, << >>)

PlanArgs ==
    [lat : {AircraftPos("lat")}, long : {AircraftPos("long")}, alt : {0},
     heading : {90}, cas : {149},
     departure_airport : {DEP}, departure_runway : {RW07},
     sid : {<< >>, SID0, SID1},
     arrival_airport : {ARR},
     arrival_runway : {<< >>, RW05R, RW36C, RW18},
     star : {<< >>, STAR1, STAR2},
     approach : {<< >>, APP_I, APP_R},
     flight_plan : {<< >>, <<<<"E">>>>, <<<<"E">>, <<"F">>>>},
     flight_plan_index : {0},
     cruise_alt : {-1, 37000}]

ReplanArgs ==
    [arrival_airport : {<< >>},
     arrival_runway : {<< >>, <<RW36C>>, <<<< >>>>},
     star : {<< >>, <<STAR2>>},
     approach : {<< >>, <<<< >>>>},
     flight_plan : {<< >>, <<<<<<"E">>>>>>},
     flight_plan_index : {<< >>, <<1>>},
     cruise_alt : {<< >>, <<-1>>}]

NoRwy == [in |-> << >>, out |-> << >>]

NoSrv == << >>

\* the state in which r, returned by NewAircraft, is the whole fleet
StartWith(r) ==
    /\ traffic = r.traffic
    /\ ap = r.ap
    /\ handles = r.handles
    /\ own = r.own
    /\ hist = Hist("new", 1, r.raised, << >>, << >>)
    /\ obs = NoObs
    /\ rwy = NoRwy
    /\ calc = NoCalc
    /\ srv = NoSrv

InitPlan ==
    \E x \in PlanArgs : StartWith(NewAircraft(TrafficInit, APInit, << >>, << >>, x))

Replan == \E x \in ReplanArgs : FacadeSetFlightPlan(1, x)

NextPlan == Replan

SpecPlan == InitPlan /\ [][NextPlan]_vars

----------------------------------------------------------------------------
(* Re-planning with arguments omitted: one aircraft, every subset of the    *)
(* facade's arguments given, what was stored before the call recorded       *)

OmitPlanArgs ==
    [lat : {AircraftPos("lat")}, long : {AircraftPos("long")}, alt : {0},
     heading : {90}, cas : {149},
     departure_airport : {DEP}, departure_runway : {RW07},
     sid : {SID1},
     arrival_airport : {ARR},
     arrival_runway : {<< >>, RW05R},
     star : {<< >>, STAR1},
     approach : {<< >>},
     flight_plan : {<<<<"E">>, <<"F">>>>},
     flight_plan_index : {0},
     cruise_alt : {35000}]

OmitArgs ==
    [arrival_airport : {<< >>},
     arrival_runway : {<< >>, <<RW36C>>},
     star : {<< >>, <<STAR2>>},
     approach : {<< >>},
     flight_plan : {<< >>, <<<<<<"E">>>>>>},
     flight_plan_index : {<< >>, <<0>>},
     cruise_alt : {<< >>, <<37000>>}]

\* the facade's optional arguments and the array each one is stored in
ArgField ==
    [arrival_airport |-> "arrival_airport", arrival_runway |-> "arrival_runway",
     star |-> "star", approach |-> "approach",
     flight_plan |-> "flight_plan_enroute",
     flight_plan_index |-> "flight_plan_index", cruise_alt |-> "cruise_alt"]

\* what the Autopilot stores for the aircraft at index under those arrays
Stored(a, index) ==
    [arg \in DOMAIN ArgField |-> Get(a, ArgField[arg], index)]

InitOmit ==
    \E x \in OmitPlanArgs : StartWith(NewAircraft(TrafficInit, APInit, << >>, << >>, x))

\* Aircraft.set_flight_plan(...) on handle h, recorded with its arguments and
\* with what was stored before it
ReplanRecorded(h, x, index) ==
    /\ Alive
    /\ IF index < 0 THEN LookupFailed("set_flight_plan", h)
       ELSE /\ Replanned(h, x, FacadePlanArgs(ap, index, x),
                         PlanWith(ap, index, FacadePlanArgs(ap, index, x)))
            /\ calc' = [op |-> "set_flight_plan", x |-> x, pre |-> Stored(ap, index)]
            /\ UNCHANGED <<traffic, handles, obs, rwy, srv>>

ReplanOmitting == \E x \in OmitArgs : ReplanRecorded(1, x, Resolve(traffic, handles[1].index))

NextOmit == ReplanOmitting

SpecOmit == InitOmit /\ [][NextOmit]_vars

----------------------------------------------------------------------------
(* Reciprocal runway: every arrival runway 01..36 with every suffix *)

RunwayNumbers == 1..36

RunwaySuffixes == {<< >>, <<"L">>, <<"R">>, <<"C">>}

RunwayId(n, suffix) == <<"R", "W">> \o ZFill(PyStr(n), 2) \o suffix

InitRunway ==
    /\ \E n \in RunwayNumbers, suffix \in RunwaySuffixes :
          rwy = [in |-> RunwayId(n, suffix), out |-> << >>]
    /\ calc = NoCalc
    /\ traffic = TrafficInit
    /\ ap = APInit
    /\ handles = << >>
    /\ own = << >>
    /\ hist = NoHist
    /\ obs = NoObs
    /\ srv = NoSrv

\* the computation of opp_runway for the arrival runway drawn
ComputeOpposite ==
    /\ rwy.out = << >>
    /\ rwy' = [rwy EXCEPT !.out = OppRunway(rwy.in)]
    /\ UNCHANGED <<traffic, ap, handles, own, hist, obs, calc, srv>>

NextRunway == ComputeOpposite

SpecRunway == InitRunway /\ [][NextRunway]_vars

----------------------------------------------------------------------------
(* Cross-track correction: every deviation drawn below *)

CrossTrackMax == 250

CrossTracks ==
    {-200, -100, -40, 0, 40, 100, 200}
        \cup (201..CrossTrackMax) \cup {-d : d \in 201..CrossTrackMax}

InitCrossTrack ==
    /\ \E d \in CrossTracks : calc = [op |-> "correction", in |-> d, out |-> << >>]
    /\ traffic = TrafficInit
    /\ ap = APInit
    /\ handles = << >>
    /\ own = << >>
    /\ hist = NoHist
    /\ obs = NoObs
    /\ rwy = NoRwy
    /\ srv = NoSrv

\* the computation of the correction for the deviation drawn
ComputeCorrection ==
    /\ calc.out = << >>
    /\ calc' = [calc EXCEPT !.out = <<cross_track_correction(calc.in)>>]
    /\ UNCHANGED <<traffic, ap, handles, own, hist, obs, rwy, srv>>

NextCrossTrack == ComputeCorrection

SpecCrossTrack == InitCrossTrack /\ [][NextCrossTrack]_vars

----------------------------------------------------------------------------
(* FullFlightDemo.should_end at every elapsed time and fleet altitude *)

\* should_end ending the run from 60 seconds on
ShouldEndFrom60(global_time, alt) ==
    global_time >= 60 /\ \A k \in 1..Len(alt) : alt[k] = 0

\* FullFlightDemo.should_end, alt being self.traffic.alt
should_end(global_time, alt) ==
    global_time > 60 /\ \A k \in 1..Len(alt) : alt[k] = 0

\* elapsed seconds
MaxTime == 63

\* the altitudes of a fleet of at most two aircraft, on the ground or not
FleetAlts == {<< >>} \cup [1..1 -> {0, 1000}] \cup [1..2 -> {0, 1000}]

InitDemo ==
    /\ \E t \in 0..MaxTime, alt \in FleetAlts :
          calc = [op |-> "should_end", global_time |-> t, alt |-> alt, out |-> << >>]
    /\ traffic = TrafficInit
    /\ ap = APInit
    /\ handles = << >>
    /\ own = << >>
    /\ hist = NoHist
    /\ obs = NoObs
    /\ rwy = NoRwy
    /\ srv = NoSrv

ShouldEnd ==
    /\ calc.out = << >>
    /\ calc' = [calc EXCEPT !.out = <<should_end(calc.global_time, calc.alt)>>]
    /\ UNCHANGED <<traffic, ap, handles, own, hist, obs, rwy, srv>>

NextDemo == ShouldEnd

SpecDemo == InitDemo /\ [][NextDemo]_vars

----------------------------------------------------------------------------
(* What a tick reads from Traffic, the performance model and the geodesy    *)
(* functions                                                                *)

TickEnv ==
    [dist : {0, 3, 9},              \* km to the current target
     dist_next : {5},               \* km to the target after it
     aligned : BOOLEAN,             \* |traffic heading - next track| < 1.0
     in_turn : BOOLEAN,             \* dist < turn_dist
     next_track : {90},             \* bearing of the next leg
     curr_track : {90, 270},        \* corrected bearing to the current target
     wind_correction : {0},
     procedure_speed : {250},
     max_cas : {340}, max_mach : {1},
     speed_mode : {"CAS"},
     mach_of_cas : {0}, cas_of_mach : {250},
     traffic_cas : {250}, traffic_mach : {0}, traffic_alt : {3000}]

Tick == \E e \in TickEnv : UpdateWith(e)

----------------------------------------------------------------------------
(* Commands: one aircraft flying a short plan, given setter and getter      *)
(* commands between ticks                                                   *)

CommandArgs ==
    [lat : {AircraftPos("lat")}, long : {AircraftPos("long")}, alt : {0},
     heading : {90}, cas : {149},
     departure_airport : {DEP}, departure_runway : {RW07},
     sid : {<< >>},
     arrival_airport : {ARR}, arrival_runway : {<< >>},
     star : {<< >>}, approach : {<< >>},
     flight_plan : {<<<<"E">>>>},
     flight_plan_index : {0},
     cruise_alt : {-1, 37000}]

\* the value each setter is called with
SetterArg ==
    [set_heading |-> 90, set_speed |-> 250, set_vs |-> 0, set_alt |-> 3000,
     set_direct |-> <<"E">>, resume_own_navigation |-> 0,
     set_altimeter |-> 1013, set_flight_phase |-> 3, set_frequency |-> 0]

InitCommands ==
    \E x \in CommandArgs : StartWith(NewAircraft(TrafficInit, APInit, << >>, << >>, x))

Set == \E op \in Setters : FacadeSet(1, op, SetterArg[op], Resolve(traffic, handles[1].index))

Read == \E op \in Getters : FacadeGet(1, op, Resolve(traffic, handles[1].index))

\* what a tick reads: short of the target or beyond it, aligned with the
\* following leg or not
CommandEnv == {e \in TickEnv : e.dist # 0 /\ ~e.in_turn /\ e.curr_track = 90}

TickCommands == \E e \in CommandEnv : UpdateWith(e)

NextCommands == Set \/ Read \/ TickCommands

SpecCommands == InitCommands /\ [][NextCommands]_vars

----------------------------------------------------------------------------
(* Holding: one aircraft flying its plan, cleared once to hold *)

MaxRounds == 2

HoldArgs ==
    [lat : {AircraftPos("lat")}, long : {AircraftPos("long")}, alt : {0},
     heading : {90}, cas : {149},
     departure_airport : {DEP}, departure_runway : {RW07},
     sid : {SID1, SID2},
     arrival_airport : {ARR}, arrival_runway : {<< >>},
     star : {<< >>}, approach : {<< >>},
     flight_plan : {<<<<"E">>, <<"F">>>>},
     flight_plan_index : {0},
     cruise_alt : {37000}]

HoldFixes == {<<"E">>, <<"Q">>, <<"Z">>}

InitHold ==
    \E x \in HoldArgs : StartWith(NewAircraft(TrafficInit, APInit, << >>, << >>, x))

Hold ==
    /\ obs.cleared = 0
    /\ \E n \in 1..MaxRounds, fix \in HoldFixes :
          FacadeSetHolding(1, n, fix, DEP)

NextHold == Hold \/ Tick

SpecHold == InitHold /\ [][NextHold]_vars

----------------------------------------------------------------------------
(* Headings: the aircraft above, also given headings to fly; calc keeps the *)
(* heading last commanded through set_heading                               *)

CommandedHeadings == {90, 270}

\* Aircraft.set_heading(heading) on the first aircraft, once
SetHeading ==
    /\ Alive
    /\ calc = NoCalc
    /\ \E heading \in CommandedHeadings :
          /\ ap' = set_heading(ap, Resolve(traffic, handles[1].index), heading)
          /\ hist' = Hist("set_heading", 1, FALSE, <<heading>>, << >>)
          /\ calc' = [op |-> "set_heading", heading |-> heading]
    /\ UNCHANGED <<traffic, handles, own, obs, rwy, srv>>

NextHeading == Hold \/ Tick \/ SetHeading

SpecHeading == InitHold /\ [][NextHeading]_vars

----------------------------------------------------------------------------
(* Leg tracking: one aircraft flying its plan, update run once per position *)
(* and run again before Traffic has moved the aircraft                      *)

\* what a tick reads, the distances to the current and the next target
\* ranging over values on both sides of each other
RerunEnv ==
    [dist : {0, 3, 5, 9}, dist_next : {3, 5},
     aligned : BOOLEAN, in_turn : BOOLEAN,
     next_track : {90}, curr_track : {90, 270},
     wind_correction : {0},
     procedure_speed : {250},
     max_cas : {340}, max_mach : {1},
     speed_mode : {"CAS"},
     mach_of_cas : {0}, cas_of_mach : {250},
     traffic_cas : {250}, traffic_mach : {0}, traffic_alt : {3000}]

\* the leg pointer of the only aircraft
Pointer(a) == a.flight_plan_index[1]

\* the inputs update reads when it runs again after a run that read e and
\* moved the pointer by moved, Traffic's position and heading being what they
\* were: the target is the former next target when the pointer advanced
\* within the plan, so the distance to it is the former distance to the next
\* target; what depends on the leg after the target is read afresh
FrozenEnv(e, moved, a) ==
    {[e EXCEPT !.dist = IF moved = 1 /\ Pointer(a) < Len(a.flight_plan_name[1])
                        THEN e.dist_next ELSE e.dist,
               !.dist_next = d, !.aligned = al, !.in_turn = tn] :
       d \in {3, 5}, al \in BOOLEAN, tn \in BOOLEAN}

\* update run with the inputs e, recorded with the pointer's movement
Run(e, again, before) ==
    /\ Alive
    /\ Ticked(update(ap, <<e>>))
    /\ calc' = [op |-> "update", e |-> e, again |-> again, before |-> before,
                moved |-> Pointer(ap') - Pointer(ap)]

InitRerun ==
    \E x \in HoldArgs : StartWith(NewAircraft(TrafficInit, APInit, << >>, << >>, x))

\* a tick after Traffic moved the aircraft
Fly == \E e \in RerunEnv : Run(e, FALSE, 0)

\* update run again with Traffic unchanged
FlyAgain ==
    /\ calc # NoCalc
    /\ \E e \in FrozenEnv(calc.e, calc.moved, ap) : Run(e, TRUE, calc.moved)

NextRerun == Fly \/ FlyAgain

SpecRerun == InitRerun /\ [][NextRerun]_vars

----------------------------------------------------------------------------
(* Own navigation: the holding aircraft, also told to resume its own          *)
(* navigation and to fly direct; calc keeps the last of these commands and  *)
(* the leg pointer it found                                                 *)

\* Aircraft.resume_own_navigation() or Aircraft.set_direct(waypoint) on the
\* first aircraft, r being the Autopilot state it leaves
Navigated(op, arg, r) ==
    /\ ap' = r
    /\ hist' = Hist(op, 1, FALSE, arg, << >>)
    /\ calc' = [op |-> op, pointer |-> Pointer(ap)]
    /\ UNCHANGED <<traffic, handles, own, obs, rwy, srv>>

Resume ==
    /\ Alive
    /\ Navigated("resume_own_navigation", << >>,
                 resume_own_navigation(ap, Resolve(traffic, handles[1].index)))

Direct ==
    /\ Alive
    /\ \E waypoint \in {<<"E">>} :
          Navigated("set_direct", <<waypoint>>,
                    set_direct(ap, Resolve(traffic, handles[1].index), waypoint))

\* a tick, while the aircraft has turned at most MaxRounds times each way
TickNavigate ==
    /\ obs.outbound <= MaxRounds
    /\ obs.inbound <= MaxRounds
    /\ Tick

NextNavigate == Hold \/ TickNavigate \/ Resume \/ Direct

SpecNavigate == InitHold /\ [][NextNavigate]_vars

----------------------------------------------------------------------------
(* Speed commands: one aircraft flying a short plan in either global speed  *)
(* reference mode, given speeds to fly; calc keeps the speed last commanded *)
(* through set_speed, until the aircraft resumes its own navigation         *)

CommandedSpeeds == {200, 250}

\* what a tick reads, the speed reference being CAS or MACH
SpeedEnv ==
    [dist : {3, 9}, dist_next : {5}, aligned : BOOLEAN, in_turn : {FALSE},
     next_track : {90}, curr_track : {90}, wind_correction : {0},
     procedure_speed : {250},
     max_cas : {340}, max_mach : {1},
     speed_mode : {"CAS", "MACH"},   \* traffic.speed_mode
     mach_of_cas : {0},              \* the Mach number of the CAS target
     cas_of_mach : {250},            \* the CAS of the Mach target
     traffic_cas : {250}, traffic_mach : {0}, traffic_alt : {3000}]

\* Aircraft.set_speed(speed) on the first aircraft
SetSpeed ==
    /\ Alive
    /\ \E speed \in CommandedSpeeds :
          /\ ap' = set_speed(ap, Resolve(traffic, handles[1].index), speed)
          /\ hist' = Hist("set_speed", 1, FALSE, <<speed>>, << >>)
          /\ calc' = [op |-> "set_speed", speed |-> speed]
    /\ UNCHANGED <<traffic, handles, own, obs, rwy, srv>>

TickSpeed == \E e \in SpeedEnv : UpdateWith(e)

NextSpeed == SetSpeed \/ TickSpeed \/ Resume

SpecSpeed == InitCommands /\ [][NextSpeed]_vars

----------------------------------------------------------------------------
(* Vectoring: one aircraft flying its plan, vectored and re-planned *)

MaxLegs == 6

VectorArgs ==
    [lat : {AircraftPos("lat")}, long : {AircraftPos("long")}, alt : {0},
     heading : {90}, cas : {149},
     departure_airport : {DEP}, departure_runway : {RW07},
     sid : {SID1},
     arrival_airport : {ARR}, arrival_runway : {<< >>},
     star : {<< >>}, approach : {<< >>},
     flight_plan : {<<<<"E">>>>},
     flight_plan_index : {0},
     cruise_alt : {-1, 37000}]

VectorFixes == {<<"P">>, <<"E">>, <<"V", "E", "C", "T">>}

VectorSpeeds == {200}

VectorReplanArgs ==
    [arrival_airport : {<< >>}, arrival_runway : {<< >>}, star : {<< >>},
     approach : {<< >>}, flight_plan : {<< >>},
     flight_plan_index : {<<0>>}, cruise_alt : {<< >>}]

InitVector ==
    \E x \in VectorArgs : StartWith(NewAircraft(TrafficInit, APInit, << >>, << >>, x))

Vector ==
    /\ Len(Get(ap, "flight_plan_name", 0)) < MaxLegs
    /\ \E fix \in VectorFixes, v_2 \in VectorSpeeds :
          FacadeSetVectoring(1, 60, v_2, fix)

ReplanVector == \E x \in VectorReplanArgs : FacadeSetFlightPlan(1, x)

NextVector == Vector \/ Tick \/ ReplanVector

SpecVector == InitVector /\ [][NextVector]_vars

----------------------------------------------------------------------------
(* Fleet: aircraft are added, deleted and re-planned through their handles *)

MaxAdds == 3

FleetArgs ==
    [lat : {AircraftPos("lat")}, long : {AircraftPos("long")}, alt : {0},
     heading : {90}, cas : {149},
     departure_airport : {DEP}, departure_runway : {RW07},
     sid : {SID1},
     arrival_airport : {ARR}, arrival_runway : {<< >>},
     star : {<< >>, STAR1}, approach : {<< >>},
     flight_plan : {<<<<"E">>>>},
     flight_plan_index : {0},
     cruise_alt : {35000, 37000}]

FleetReplanArgs ==
    [arrival_airport : {<< >>}, arrival_runway : {<< >>},
     star : {<< >>, <<STAR2>>}, approach : {<< >>}, flight_plan : {<< >>},
     flight_plan_index : {<<0>>}, cruise_alt : {<< >>, <<39000>>}]

InitFleet ==
    /\ traffic = TrafficInit
    /\ ap = APInit
    /\ handles = << >>
    /\ own = << >>
    /\ hist = NoHist
    /\ obs = NoObs
    /\ rwy = NoRwy
    /\ calc = NoCalc
    /\ srv = NoSrv

\* the fleet once Aircraft.__init__ has left r
Added(r) ==
    /\ traffic' = r.traffic
    /\ ap' = r.ap
    /\ handles' = r.handles
    /\ own' = r.own
    /\ hist' = Hist("new", Len(r.handles), r.raised, << >>, << >>)
    /\ UNCHANGED <<obs, rwy, calc, srv>>

AddAircraft ==
    /\ Alive
    /\ traffic.n < MaxAdds
    /\ \E x \in FleetArgs : Added(NewAircraft(traffic, ap, handles, own, x))

\* Traffic.del_aircraft(slot): the slot leaves the Traffic arrays and, through
\* Autopilot.del_aircraft, the Autopilot arrays; the handles stay
DeleteAircraft ==
    /\ Alive
    /\ \E slot \in 0..(Len(traffic.index) - 1) :
          /\ traffic' = TrafficDel(traffic, slot)
          /\ ap' = del_aircraft(ap, slot)
          /\ hist' = Hist("del_aircraft", 0, FALSE, slot, << >>)
    /\ UNCHANGED <<handles, own, obs, rwy, calc, srv>>

ReplanFleet ==
    \E h \in 1..Len(handles), x \in FleetReplanArgs : FacadeSetFlightPlan(h, x)

NextFleet == AddAircraft \/ DeleteAircraft \/ ReplanFleet

SpecFleet == InitFleet /\ [][NextFleet]_vars

----------------------------------------------------------------------------
(* Commands to deleted aircraft: the fleet above, its aircraft vectored,    *)
(* and every facade operation called on the handles of deleted aircraft     *)

\* the aircraft of handle h has left the Traffic store
Deleted(h) == Resolve(traffic, handles[h].index) < 0

DeletedHandles == {h \in 1..Len(handles) : Deleted(h)}

\* the aircraft constructed in this fleet
MaxFleet == 2

AddToFleet == traffic.n < MaxFleet /\ AddAircraft

VectorFleet ==
    \E h \in 1..Len(handles) : FacadeSetVectoring(h, 60, 200, <<"P">>)

SetDeleted ==
    \E h \in DeletedHandles, op \in Setters :
        FacadeSet(h, op, SetterArg[op], Resolve(traffic, handles[h].index))

ReadDeleted ==
    \E h \in DeletedHandles, op \in Getters :
        FacadeGet(h, op, Resolve(traffic, handles[h].index))

HoldDeleted == \E h \in DeletedHandles : FacadeSetHolding(h, 1, <<"E">>, DEP)

ReplanDeleted ==
    \E h \in DeletedHandles, x \in FleetReplanArgs : FacadeSetFlightPlan(h, x)

NextDeleted ==
    \/ AddToFleet \/ DeleteAircraft \/ VectorFleet
    \/ SetDeleted \/ ReadDeleted \/ HoldDeleted \/ ReplanDeleted

SpecDeleted == InitFleet /\ [][NextDeleted]_vars

----------------------------------------------------------------------------
(* Server: runSimulation requests, interleaved where the handlers yield.    *)
(* srv.envs holds every environment constructed, srv.handlers the position  *)
(* of every request's handler: "sleep" (yielded in socketio.sleep(0)),      *)
(* "run" (inside env.run, yielded after a tick), "done", "failed".          *)

MaxRequests == 3

MaxTicks == 1

Scenarios == {"FullFlightDemo", "WeatherDemo", "ConvertHistoricDemo"}

RequestFiles == Scenarios \cup {"Missing"}

\* the loadingMsg the handler emits
LoadingMsg(file) ==
    IF file = "ConvertHistoricDemo" THEN "Converting historic data"
    ELSE IF file = "WeatherDemo" THEN "Downloading weather data"
    ELSE "Running simulation"

\* running_environment = None, no environment, no request
SrvInit ==
    [running_environment |-> 0, envs |-> << >>, handlers |-> << >>,
     emitted |-> << >>]

InitServer ==
    /\ srv = SrvInit
    /\ traffic = TrafficInit
    /\ ap = APInit
    /\ handles = << >>
    /\ own = << >>
    /\ hist = NoHist
    /\ obs = NoObs
    /\ rwy = NoRwy
    /\ calc = NoCalc

\* the connected clients
Clients == {1, 2}

\* socketio.emit(event, data) with no recipient given: a broadcast
Emit(event, data) == [event |-> event, data |-> data, to |-> "all"]

\* the clients an emitted event is delivered to
Recipients(e) == IF e.to = "all" THEN Clients ELSE {e.to}

\* run_simulation(file), requested by client, up to its socketio.sleep(0)
Requested(client, file) ==
    /\ srv' = [srv EXCEPT
                 !.emitted = Append(@, Emit("loadingMsg", LoadingMsg(file))),
                 !.handlers = Append(@, [file |-> file, pc |-> "sleep", env |-> 0,
                                         client |-> client])]
    /\ UNCHANGED <<traffic, ap, handles, own, hist, obs, rwy, calc>>

\* run_simulation up to its socketio.sleep(0), every request from one client
RunSimulationBegin ==
    /\ Len(srv.handlers) < MaxRequests
    /\ \E file \in RequestFiles : Requested(1, file)

\* the environments left untouched: no stop of the previous one
StopNone(envs, running_environment) == envs

\* if running_environment is not None: running_environment.stop()
StopPrevious(envs, running_environment) ==
    IF running_environment # 0
    THEN [envs EXCEPT ![running_environment].stopped = TRUE]
    ELSE envs

\* the import or Env() raised, after a stop of the previous environment
ImportFailedStopping(v, k) ==
    [v EXCEPT !.handlers[k].pc = "failed",
              !.envs = StopPrevious(v.envs, v.running_environment)]

\* the import or Env() raised: the handler ends there
ImportFailed(v, k) == [v EXCEPT !.handlers[k].pc = "failed"]

\* env = Env()
NewEnv(file) == [file |-> file, stopped |-> FALSE, installed |-> FALSE,
                 started |-> FALSE, ticks |-> 0]

\* run_simulation from its socketio.sleep(0) to the first yield of env.run:
\* the import (which raises for a name that is no scenario), Env(), the stop
\* of the previous environment, the install and the start of env.run
RunSimulationResume(k) ==
    /\ srv.handlers[k].pc = "sleep"
    /\ IF srv.handlers[k].file \notin Scenarios
       THEN srv' = ImportFailed(srv, k)
       ELSE srv' = [srv EXCEPT
                      !.envs = Append(StopPrevious(srv.envs, srv.running_environment),
                                      [NewEnv(srv.handlers[k].file) EXCEPT
                                          !.installed = TRUE, !.started = TRUE]),
                      !.running_environment = Len(srv.envs) + 1,
                      !.handlers[k] = [@ EXCEPT !.pc = "run",
                                                !.env = Len(srv.envs) + 1]]
    /\ UNCHANGED <<traffic, ap, handles, own, hist, obs, rwy, calc>>

\* one iteration of env.run: it returns once the environment is stopped or
\* its end condition holds, else it ticks and yields
EnvTick(k) ==
    /\ srv.handlers[k].pc = "run"
    /\ \/ /\ srv.envs[srv.handlers[k].env].stopped
          /\ srv' = [srv EXCEPT !.handlers[k].pc = "done"]
       \/ /\ ~srv.envs[srv.handlers[k].env].stopped
          /\ srv' = [srv EXCEPT !.handlers[k].pc = "done"]
       \/ /\ ~srv.envs[srv.handlers[k].env].stopped
          /\ srv.envs[srv.handlers[k].env].ticks < MaxTicks
          /\ srv' = [srv EXCEPT !.envs[srv.handlers[k].env].ticks = @ + 1]
    /\ UNCHANGED <<traffic, ap, handles, own, hist, obs, rwy, calc>>

NextServer ==
    \/ RunSimulationBegin
    \/ \E k \in 1..Len(srv.handlers) : RunSimulationResume(k)
    \/ \E k \in 1..Len(srv.handlers) : EnvTick(k)

SpecServer == InitServer /\ [][NextServer]_vars

----------------------------------------------------------------------------
(* Server with two clients: requests for a scenario that runs, for a name   *)
(* that is no module, and for a module whose Env() raises                   *)

MaxClientRequests == 2

ClientFiles == {"FullFlightDemo", "Missing", "Unbuildable"}

RequestFrom ==
    /\ Len(srv.handlers) < MaxClientRequests
    /\ \E client \in Clients, file \in ClientFiles : Requested(client, file)

NextClients ==
    \/ RequestFrom
    \/ \E k \in 1..Len(srv.handlers) : RunSimulationResume(k)
    \/ \E k \in 1..Len(srv.handlers) : EnvTick(k)

SpecClients == InitServer /\ [][NextClients]_vars

----------------------------------------------------------------------------
(* Server relay: clients connect, disconnect and send webrtc events.        *)
(* srv.connected is the set of connected clients; an entry of srv.emitted   *)
(* keeps the clients it was delivered to in its field received.             *)

MaxRelayed == 2

RelayClients == {1, 2, 3}

Payloads == {"offer", "answer", "candidate"}

InitRelay ==
    /\ srv = [running_environment |-> 0, envs |-> << >>, handlers |-> << >>,
              emitted |-> << >>, connected |-> {}]
    /\ traffic = TrafficInit
    /\ ap = APInit
    /\ handles = << >>
    /\ own = << >>
    /\ hist = NoHist
    /\ obs = NoObs
    /\ rwy = NoRwy
    /\ calc = NoCalc

\* emit(event, data, broadcast=True, include_self=True): to every client
EmitToAll(event, data, sid, connected) ==
    [event |-> event, data |-> data, to |-> "all", received |-> connected]

\* emit(event, data, broadcast=True, include_self=False), in the handler of
\* an event of client sid: to every connected client but sid
EmitToOthers(event, data, sid, connected) ==
    [event |-> event, data |-> data, to |-> "others",
     received |-> connected \ {sid}]

\* a client connects
Connect ==
    /\ \E client \in RelayClients \ srv.connected :
          srv' = [srv EXCEPT !.connected = @ \cup {client}]
    /\ UNCHANGED <<traffic, ap, handles, own, hist, obs, rwy, calc>>

\* a client disconnects
Disconnect ==
    /\ \E client \in srv.connected :
          srv' = [srv EXCEPT !.connected = @ \ {client}]
    /\ UNCHANGED <<traffic, ap, handles, own, hist, obs, rwy, calc>>

\* webrtc(data), the handler of a webrtc event of client sid
webrtc(sid, data) ==
    /\ srv' = [srv EXCEPT
                 !.emitted = Append(@, EmitToOthers("webrtc", data, sid,
                                                    srv.connected))]
    /\ calc' = [op |-> "webrtc", sid |-> sid, data |-> data,
                connected |-> srv.connected]
    /\ UNCHANGED <<traffic, ap, handles, own, hist, obs, rwy>>

Webrtc ==
    /\ Len(srv.emitted) < MaxRelayed
    /\ \E sid \in srv.connected, data \in Payloads : webrtc(sid, data)

NextRelay == Connect \/ Disconnect \/ Webrtc

SpecRelay == InitRelay /\ [][NextRelay]_vars

----------------------------------------------------------------------------
(* Server listing: getSimulationFile over a scenario directory. File names  *)
(* are strings (sequences of characters); srv.directory is the set of the   *)
(* names of the .py files in data/environment/.                              *)

MaxStem == 2

MaxFiles == 2

\* the characters of the file names, with their code points
StemChars == {"-", "a", "b"}

Ord(ch) ==
    CASE ch = "-" -> 45 [] ch = "." -> 46 [] ch = "_" -> 95 [] ch = "a" -> 97
      [] ch = "b" -> 98 [] ch = "i" -> 105 [] ch = "n" -> 110 [] ch = "p" -> 112
      [] ch = "t" -> 116 [] ch = "y" -> 121

DotPy == <<".", "p", "y">>

InitPy == <<"_", "_", "i", "n", "i", "t", "_", "_">> \o DotPy

\* the names a .py file of the directory may have
FileNames ==
    {stem \o DotPy : stem \in UNION {[1..n -> StemChars] : n \in 1..MaxStem}}
        \cup {InitPy}

\* the order of str (and of paths within one directory): by code point,
\* a proper prefix first
RECURSIVE StrLess(_, _)
StrLess(s, t) ==
    IF t = << >> THEN FALSE
    ELSE IF s = << >> THEN TRUE
    ELSE IF Head(s) # Head(t) THEN Ord(Head(s)) < Ord(Head(t))
    ELSE StrLess(Tail(s), Tail(t))

\* sorted(names)
RECURSIVE sorted(_)
sorted(names) ==
    IF names = {} THEN << >>
    ELSE LET least == CHOOSE x \in names : \A y \in names \ {x} : StrLess(x, y)
         IN  <<least>> \o sorted(names \ {least})

\* name.removesuffix('.py')
removesuffix(name, suffix) ==
    IF Len(name) >= Len(suffix)
       /\ SubSeq(name, Len(name) - Len(suffix) + 1, Len(name)) = suffix
    THEN SubSeq(name, 1, Len(name) - Len(suffix))
    ELSE name

\* the loop of get_simulation_file over the sorted paths
RECURSIVE SimulationList(_)
SimulationList(files) ==
    IF files = << >> THEN << >>
    ELSE IF Head(files) # InitPy
         THEN <<removesuffix(Head(files), DotPy)>> \o SimulationList(Tail(files))
         ELSE SimulationList(Tail(files))

get_simulation_file(directory) == SimulationList(sorted(directory))

InitListing ==
    /\ \E directory \in {d \in SUBSET FileNames : Cardinality(d) <= MaxFiles} :
          srv = [running_environment |-> 0, envs |-> << >>, handlers |-> << >>,
                 emitted |-> << >>, directory |-> directory]
    /\ traffic = TrafficInit
    /\ ap = APInit
    /\ handles = << >>
    /\ own = << >>
    /\ hist = NoHist
    /\ obs = NoObs
    /\ rwy = NoRwy
    /\ calc = NoCalc

\* a client's getSimulationFile event; calc.result is the list returned
GetSimulationFile ==
    /\ calc = NoCalc
    /\ calc' = [op |-> "getSimulationFile",
                result |-> get_simulation_file(srv.directory)]
    /\ UNCHANGED <<traffic, ap, handles, own, hist, obs, rwy, srv>>

SpecListing == InitListing /\ [][GetSimulationFile]_vars

----------------------------------------------------------------------------
(* Properties of the flight-plan assembly (SpecPlan) *)

\* a set_flight_plan call, at construction or through the facade, has
\* just returned
PlanCompleted == hist.op \in {"new", "set_flight_plan"} /\ ~hist.raised

LegNames == Get(ap, "flight_plan_name", 0)

LegLats == Get(ap, "flight_plan_lat", 0)

LegLongs == Get(ap, "flight_plan_long", 0)

LegAlts == Get(ap, "flight_plan_target_alt", 0)

LegSpeeds == Get(ap, "flight_plan_target_speed", 0)

DepartureThreshold ==
    get_runway_coord(Get(ap, "departure_airport", 0),
                     SliceFrom(Get(ap, "departure_runway", 0), 2))

\* C7: after any completed set_flight_plan, leg 0 is named
\* "{departure_airport} {departure_runway}", lies at the departure runway
\* threshold, and has the threshold elevation as target altitude and target
\* speed 0.
C7_OriginLeg ==
    PlanCompleted =>
        /\ LegNames[1] = Get(ap, "departure_airport", 0) \o <<" ">>
                         \o Get(ap, "departure_runway", 0)
        /\ LegLats[1] = DepartureThreshold.lat
        /\ LegLongs[1] = DepartureThreshold.long
        /\ LegAlts[1] = DepartureThreshold.alt
        /\ LegSpeeds[1] = 0

\* a facade re-plan with SID, enroute, STAR and arrival legs has completed
C7_Witness ==
    /\ hist.op = "set_flight_plan" /\ ~hist.raised
    /\ Len(LegNames) >= 6
    /\ Get(ap, "arrival_runway", 0) = RW36C
    /\ Get(ap, "sid", 0) = SID1

ArrivalLegName ==
    Get(ap, "arrival_airport", 0) \o <<"_">> \o Get(ap, "arrival_runway", 0)

\* the last leg is the arrival-runway leg or the synthetic _END leg
LastLegIsArrival ==
    Get(ap, "arrival_runway", 0) # << >> =>
        \/ Last(LegNames) = Get(ap, "arrival_runway", 0)
        \/ /\ Last(LegNames) = ArrivalLegName \o <<"_", "E", "N", "D">>
           /\ LegNames[Len(LegNames) - 1] = ArrivalLegName

\* C8: after any completed set_flight_plan that assembled at least one leg
\* besides the origin leg, the last leg's target altitude is 0, and with an
\* arrival runway the last leg is the runway leg or the _END leg.
C8_LastAltZero ==
    (PlanCompleted /\ Len(LegNames) > 1) =>
        /\ Len(LegAlts) = Len(LegNames)
        /\ Last(LegAlts) = 0
        /\ LastLegIsArrival

\* C9: after any completed set_flight_plan no leg's target altitude is the
\* sentinel -1.
C9_NoSentinel ==
    PlanCompleted => \A k \in 1..Len(LegAlts) : LegAlts[k] # -1

----------------------------------------------------------------------------
(* Properties of the reciprocal runway (SpecRunway) *)

RunwayNumberIn == PyInt(Slice(rwy.in, 2, 4))

RunwayNumberOut == PyInt(Slice(rwy.out, 0, 2))

\* C35: for every arrival runway number 01..36 the reciprocal runway number
\* is itself a two-digit runway number in 01..36, never 00
C35_ReciprocalExists ==
    rwy.out # << >> =>
        /\ Len(rwy.out) >= 2
        /\ RunwayNumberOut \in 1..36

\* C10: for every arrival runway 01..36 with suffix none, L, R or C, the
\* reciprocal identifier has a number 18 (180 degrees) away from the
\* original, L and R swapped, C kept, and no suffix where there was none.
C10_Reciprocal ==
    rwy.out # << >> =>
        /\ Len(rwy.out) = Len(rwy.in) - 2
        /\ \/ RunwayNumberOut - RunwayNumberIn = 18
           \/ RunwayNumberIn - RunwayNumberOut = 18
        /\ SliceFrom(rwy.out, 2) =
             (CASE SliceFrom(rwy.in, 4) = <<"L">> -> <<"R">>
                [] SliceFrom(rwy.in, 4) = <<"R">> -> <<"L">>
                [] SliceFrom(rwy.in, 4) = <<"C">> -> <<"C">>
                [] OTHER -> << >>)

\* the reciprocal of 18L has been computed
C10_Witness == rwy.in = RunwayId(18, <<"L">>) /\ rwy.out = <<"0", "0", "R">>

----------------------------------------------------------------------------
(* Properties of holding (SpecHold) *)

Holding == Get(ap, "holding", 0)

----------------------------------------------------------------------------
(* Properties of vectoring (SpecVector) *)

VECT == <<"V", "E", "C", "T">>

\* the call that has just returned is a set_vectoring that follows a
\* set_vectoring for the same fix
VectoredTwice ==
    /\ hist.op = "set_vectoring" /\ ~hist.raised
    /\ hist.pre # << >>
    /\ hist.pre.op = "set_vectoring"
    /\ hist.pre.arg.fix = hist.arg.fix

\* the five leg lists and the leg pointer are as before the call
PlanUnchanged ==
    /\ LegNames = hist.pre.name
    /\ LegLats = hist.pre.lat
    /\ LegLongs = hist.pre.long
    /\ LegAlts = hist.pre.alt
    /\ LegSpeeds = hist.pre.spd
    /\ Get(ap, "flight_plan_index", 0) = hist.pre.flight_plan_index

\* C4: the second of two set_vectoring calls in a row for the same fix
\* leaves the five leg lists and the leg pointer unchanged.
C4_SecondVectoringNoop == VectoredTwice => PlanUnchanged

\* the first call inserted the VECT leg before E, the second did nothing
C4_Witness ==
    /\ VectoredTwice
    /\ hist.arg.fix = <<"E">>
    /\ hist.pre.arg.effective
    /\ ~hist.arg.effective
    /\ Cardinality({k \in 1..Len(LegNames) : LegNames[k] = VECT}) = 1

\* the legs from the leg pointer on, before the call
LegsAhead ==
    SubSeq(hist.pre.name, hist.pre.flight_plan_index + 1, Len(hist.pre.name))

\* C5: a set_vectoring for a fix that is the next waypoint, issued when no
\* interim VECT leg is ahead of the aircraft (any earlier vectoring is over),
\* takes effect.
C5_VectoringAgain ==
    (/\ hist.op = "set_vectoring" /\ ~hist.raised
     /\ hist.pre # << >>
     /\ hist.arg.fix # VECT
     /\ hist.pre.next_wp = hist.arg.fix
     /\ VECT \notin Range(LegsAhead))
        => hist.arg.effective

\* C6: after an effective set_vectoring issued with leg pointer i, leg i is
\* VECT with the original leg's target altitude and target speed v, leg
\* i + 1 is the original leg with name, position, target altitude and target
\* speed unchanged, and the leg pointer is still i.
C6_VectLeg ==
    (hist.op = "set_vectoring" /\ ~hist.raised /\ hist.arg.effective) =>
        LET i == hist.pre.flight_plan_index
        IN  /\ Get(ap, "flight_plan_index", 0) = i
            /\ At(LegNames, i) = VECT
            /\ At(LegAlts, i) = At(hist.pre.alt, i)
            /\ At(LegSpeeds, i) = hist.arg.v_2
            /\ At(LegNames, i + 1) = At(hist.pre.name, i)
            /\ At(LegLats, i + 1) = At(hist.pre.lat, i)
            /\ At(LegLongs, i + 1) = At(hist.pre.long, i)
            /\ At(LegAlts, i + 1) = At(hist.pre.alt, i)
            /\ At(LegSpeeds, i + 1) = At(hist.pre.spd, i)

----------------------------------------------------------------------------
(* Properties of the fleet (SpecFleet) *)

\* C1: after a deletion, a facade set_flight_plan on a surviving aircraft
\* leaves in that aircraft's Autopilot entries the values the aircraft itself
\* stored (those it passed and, for omitted arguments, those it had), never
\* another aircraft's.
C1_OwnState ==
    (hist.op = "set_flight_plan" /\ ~hist.raised) =>
        \A f \in StoredFields :
            Get(ap, f, Resolve(traffic, handles[hist.h].index))
                = own[handles[hist.h].index + 1][f]

----------------------------------------------------------------------------
(* Properties of the server (SpecServer) *)

Unstopped ==
    {k \in 1..Len(srv.envs) : srv.envs[k].installed /\ ~srv.envs[k].stopped}

\* C2: whatever the interleaving of runSimulation requests, an environment
\* that was installed and is not stopped is the one installed last, an
\* environment's run begins only once it is installed, and so no two
\* installed environments are un-stopped at once.
C2_OneRunning ==
    /\ Cardinality(Unstopped) <= 1
    /\ \A k \in Unstopped : srv.running_environment = k
    /\ \A k \in 1..Len(srv.envs) : srv.envs[k].started => srv.envs[k].installed

\* two requests slept before either resumed; the second to resume stopped the
\* environment of the first, whose run loop has not yet returned
C2_Witness ==
    /\ Len(srv.envs) = 2
    /\ srv.envs[1].stopped /\ ~srv.envs[2].stopped
    /\ srv.running_environment = 2
    /\ \E k \in 1..Len(srv.handlers) :
          srv.handlers[k].pc = "run" /\ srv.handlers[k].env = 1

\* C18: a runSimulation request whose scenario fails to resolve or to
\* instantiate leaves running_environment as it was, stops no environment and
\* starts no run
C18_FailedNoRun ==
    [][\A k \in 1..Len(srv.handlers) :
          (srv.handlers[k].pc = "sleep" /\ srv'.handlers[k].pc = "failed") =>
              /\ srv'.running_environment = srv.running_environment
              /\ srv'.envs = srv.envs]_vars

\* a request failed while the environment of an earlier request was running,
\* and that environment is still installed, un-stopped and running
C18_Witness ==
    \E j, k \in 1..Len(srv.handlers) :
        /\ j < k
        /\ srv.handlers[k].pc = "failed"
        /\ srv.handlers[j].pc = "run"
        /\ srv.running_environment = srv.handlers[j].env
        /\ ~srv.envs[srv.handlers[j].env].stopped
        /\ Len(srv.envs) = 1

\* C19: a runSimulation request that failed to resolve its scenario caused no
\* event to be delivered to a client other than the requester
C19_FailedUnseen ==
    \A k \in 1..Len(srv.handlers) :
        srv.handlers[k].pc = "failed" =>
            Recipients(srv.emitted[k]) \subseteq {srv.handlers[k].client}

----------------------------------------------------------------------------
(* Properties of the cross-track correction (SpecCrossTrack) *)

\* C11: the correction is exactly 0 at zero deviation, and for every
\* deviation of magnitude >= 200 m (200 m included, of either sign) it is
\* exactly 20 degrees with the sign of the deviation.
C11_CrossTrackBias ==
    (calc.out # << >>) =>
        /\ calc.in = 0 => calc.out[1] = 0
        /\ Abs(calc.in) >= 200 => calc.out[1] = Sign(calc.in) * 20 * 1000

\* C34: for every cross-track deviation, of either sign and any magnitude,
\* the correction has the sign of the deviation and a magnitude of at most
\* 20 degrees (20000 thousandths)
C34_CorrectionBounded ==
    (calc.out # << >>) =>
        /\ Sign(calc.out[1]) = Sign(calc.in)
        /\ Abs(calc.out[1]) <= 20 * 1000

\* C13: with no flight-plan reassembly, a tick never moves the leg pointer
\* back, except the tick in which the aircraft enters holding, which moves it
\* back by at most one; ticks while holding and the tick that leaves holding
\* do not move it back
C13_PointerMonotone ==
    (hist.op = "update" /\ ~hist.raised) =>
        /\ hist.arg.moved >= -1
        /\ hist.arg.moved < 0 => hist.arg.entered
        /\ hist.arg.exited => hist.arg.moved >= 0
        /\ (Holding /\ ~hist.arg.entered) => hist.arg.moved >= 0

\* the tick in which the aircraft entered holding pushed the pointer back by
\* one, onto the holding fix
C13_Witness ==
    /\ hist.op = "update" /\ ~hist.raised
    /\ Holding /\ hist.arg.entered /\ hist.arg.moved = -1
    /\ Pointer(ap) = IndexOf(ap.flight_plan_name[1], ap.holding_info[1][1])

\* the plan index of the holding fix
HoldingFixIndex == IndexOf(ap.flight_plan_name[1], ap.holding_info[1][1])

\* C25: whenever a tick moves the aircraft from not holding to holding, the
\* leg pointer after the decrement is the plan index of the holding fix,
\* however many legs beyond the fix had been sequenced
C25_PointerOnFix ==
    (hist.op = "update" /\ ~hist.raised /\ hist.arg.entered) =>
        Pointer(ap) = HoldingFixIndex

\* C14: after the facade's set_flight_plan, the stored value of every omitted
\* argument (arrival airport and runway, STAR, approach, enroute list, cruise
\* altitude, leg pointer) is what it was before the call
C14_OmittedKept ==
    (calc # NoCalc /\ hist.op = "set_flight_plan" /\ ~hist.raised) =>
        \A arg \in DOMAIN ArgField :
            calc.x[arg] = << >> => Stored(ap, 0)[arg] = calc.pre[arg]

\* every operation of the facade
FacadeOps ==
    Setters \cup Getters \cup {"set_holding", "set_vectoring", "set_flight_plan"}

\* C15: for an aircraft present in the Traffic store, no facade operation
\* raises, whatever ticks and commands came before; with the leg pointer past
\* the end of the plan get_next_wp returns the absent value
C15_NoRaise ==
    (hist.op \in FacadeOps /\ Resolve(traffic, handles[hist.h].index) >= 0) =>
        /\ ~hist.raised
        /\ (/\ hist.op = "get_next_wp"
            /\ Pointer(ap) >= Len(ap.flight_plan_name[1])) => hist.arg = None

\* C16: a facade operation called on a handle whose aircraft has been deleted
\* fails with the identity-lookup failure and changes no Autopilot, Traffic
\* or handle state
C16_DeletedFails ==
    [][(hist'.op \in FacadeOps /\ Deleted(hist'.h)) =>
          (hist'.raised /\ UNCHANGED <<traffic, ap, handles>>)]_vars

\* C17: set_holding for a fix and region Nav has no holding definition for
\* raises no error and leaves the round counter, the holding definition and
\* the holding flag as they were (here: as construction left them, this
\* being the aircraft's first holding command)
C17_SilentNoOp ==
    (hist.op = "set_holding" /\ hist.arg = << >>) =>
        /\ ~hist.raised
        /\ Get(ap, "holding_round", 0) = 0
        /\ Get(ap, "holding_info", 0) = << >>
        /\ ~Holding

\* C31: for any holding clearance stored by set_holding, also one whose fix
\* is not the name of any leg of the plan, every later update completes
\* without raising
C31_UpdateCompletes ==
    (hist.op = "update" /\ Get(ap, "holding_info", 0) # << >>) => ~hist.raised

\* C12: one update moves the leg pointer forward by at most one, and an update
\* run again with Traffic's position and heading unchanged after an update
\* that advanced the pointer does not advance it again
C12_AdvanceOnce ==
    (calc # NoCalc /\ ~hist.raised) =>
        /\ calc.moved <= 1
        /\ (calc.again /\ calc.before = 1) => calc.moved <= 0

\* an update advanced the pointer within the plan, the aircraft aligned with
\* the following leg, and update was run again without advancing it
C12_Witness ==
    /\ calc # NoCalc /\ ~hist.raised
    /\ calc.again /\ calc.before = 1 /\ calc.moved = 0
    /\ calc.e.aligned /\ ap.lateral_mode[1] = LNAV
    /\ Pointer(ap) < Len(ap.flight_plan_name[1])

----------------------------------------------------------------------------
(* Properties of re-planning (SpecOmit) *)

\* the index offset the last set_flight_plan was given: at construction the
\* constructor's, on a re-plan the argument or, when omitted, the stored one
GivenIndex ==
    IF calc = NoCalc THEN 0
    ELSE Opt(calc.x.flight_plan_index, calc.pre.flight_plan_index)

\* the legs Nav resolves for the stored SID and STAR
SidLegs ==
    get_procedure(Get(ap, "departure_airport", 0), Get(ap, "departure_runway", 0),
                  Get(ap, "sid", 0), << >>, << >>)

StarLegs ==
    get_procedure(Get(ap, "arrival_airport", 0),
                  SliceFrom(Get(ap, "arrival_runway", 0), 2),
                  Get(ap, "star", 0), << >>, << >>)

\* SID legs, enroute waypoints, STAR legs
BodyNames ==
    Names(SidLegs) \o Get(ap, "flight_plan_enroute", 0) \o Names(StarLegs)

\* C22: after a completed set_flight_plan with SID legs S, enroute waypoints
\* E, STAR legs T, no approach and an arrival runway that is not the name of
\* the last of them, the leg names are the origin leg, S, E, T,
\* "{arrival_airport}_{arrival_runway}" and the same with "_END", the last two
\* with target speed 0, and the leg pointer is the given index offset + 1
C22_LegOrder ==
    (/\ PlanCompleted
     /\ Get(ap, "approach", 0) = << >>
     /\ Get(ap, "arrival_runway", 0) # << >>
     /\ BodyNames # << >>
     /\ Last(BodyNames) # Get(ap, "arrival_runway", 0)) =>
        /\ LegNames = <<Get(ap, "departure_airport", 0) \o <<" ">>
                            \o Get(ap, "departure_runway", 0)>>
                      \o BodyNames
                      \o <<ArrivalLegName, ArrivalLegName \o <<"_", "E", "N", "D">>>>
        /\ LegSpeeds[Len(LegSpeeds) - 1] = 0
        /\ LegSpeeds[Len(LegSpeeds)] = 0
        /\ Get(ap, "flight_plan_index", 0) = GivenIndex + 1

\* a re-plan that changed the arrival runway and the STAR and gave the index
\* offset has completed: origin, P, E, F, N and the two runway legs
C22_Witness ==
    /\ hist.op = "set_flight_plan" /\ ~hist.raised
    /\ calc # NoCalc /\ calc.x.flight_plan_index = <<0>>
    /\ Get(ap, "arrival_runway", 0) = RW36C
    /\ Get(ap, "star", 0) = STAR2
    /\ Len(LegNames) = 7

----------------------------------------------------------------------------
(* Properties of the baseline distance (SpecVector) *)

\* the last step was the first update after a set_flight_plan
FirstUpdate == hist.op = "update" /\ ~hist.raised /\ hist.arg.fresh

\* C26: every set_flight_plan sets the flight_plan_updated flag; the first
\* update after it replaces the cached distance before the advance test, so
\* the leg pointer does not advance in that tick, and the flag is false
\* after that update
C26_FreshBaseline ==
    /\ PlanCompleted => ap.flight_plan_updated[1]
    /\ FirstUpdate => (hist.arg.moved = 0 /\ ~ap.flight_plan_updated[1])
    /\ (hist.op = "update" /\ ~hist.raised) => ~ap.flight_plan_updated[1]

\* the first update after a set_flight_plan, in LNAV and aligned with the
\* leg, away from the target: the pointer is still on the first leg
C26_Witness ==
    /\ FirstUpdate
    /\ ap.lateral_mode[1] = LNAV
    /\ ap.dist[1] > 0
    /\ Pointer(ap) = 1

\* C27: in every set_flight_plan, at creation and on a re-plan after ticks,
\* the first assembled leg (the leg after the origin leg) is resolved
\* relative to the aircraft's current position, and every later leg relative
\* to the resolved position of the leg before it
C27_ResolvedFromPosition ==
    (PlanCompleted /\ Len(LegNames) >= 2) =>
        /\ LegLats[2] = get_wp_coord("lat", LegNames[2], traffic.lat[1])
        /\ LegLongs[2] = get_wp_coord("long", LegNames[2], traffic.long[1])
        /\ \A i \in 3..Len(LegNames) :
              /\ LegLats[i] = get_wp_coord("lat", LegNames[i], LegLats[i - 1])
              /\ LegLongs[i] = get_wp_coord("long", LegNames[i], LegLongs[i - 1])

\* C30: after every completed set_flight_plan and every set_vectoring the
\* five leg lists (name, latitude, longitude, target altitude, target speed)
\* have the same length, also for enroute waypoints with cruise altitude -1
C30_LegListsAligned ==
    (hist.op \in {"new", "set_flight_plan", "set_vectoring"} /\ ~hist.raised) =>
        /\ Len(LegLats) = Len(LegNames)
        /\ Len(LegLongs) = Len(LegNames)
        /\ Len(LegAlts) = Len(LegNames)
        /\ Len(LegSpeeds) = Len(LegNames)

----------------------------------------------------------------------------
(* Properties of the commanded heading (SpecHeading) *)

\* C28: for an aircraft whose lateral mode is HEADING, an update leaves the
\* commanded heading equal to the value last set through set_heading and
\* forces the track-angle target to 0
C28_HeadingKept ==
    [][(/\ calc # NoCalc
        /\ ap.lateral_mode[1] = HEADING
        /\ hist'.op = "update" /\ ~hist'.raised) =>
            (/\ ap'.heading[1] = calc.heading
             /\ ap'.track_angle[1] = 0)]_vars

----------------------------------------------------------------------------
(* Properties of the leg pointer (SpecNavigate) *)

\* C29: across update ticks, resume_own_navigation and set_direct commands
\* the leg pointer stays within 0..plan length: an aircraft past its plan is
\* forced to HEADING at the start of every update, so the pointer is never
\* advanced beyond the plan length, and holding never pushes it below 0
C29_PointerInPlan ==
    ~hist.raised =>
        /\ Pointer(ap) >= 0
        /\ Pointer(ap) <= Len(ap.flight_plan_name[1])
        /\ (hist.op = "update" /\ Pointer(ap) = Len(ap.flight_plan_name[1])
              /\ hist.arg.moved = 0 /\ ~hist.arg.exited)
                => ap.lateral_mode[1] = HEADING

\* C32: in every state reached through update ticks and facade commands an
\* aircraft whose holding flag is true has lateral mode HEADING, and its leg
\* pointer does not advance while the flag is true
C32_HoldingInHeading ==
    (~hist.raised /\ Holding) =>
        /\ ap.lateral_mode[1] = HEADING
        /\ (hist.op = "update" /\ ~hist.arg.entered) => hist.arg.moved <= 0

\* the aircraft resumed its own navigation with the pointer past the plan,
\* and the update after it forced HEADING and left the pointer there
C29_Witness ==
    /\ calc # NoCalc /\ calc.op = "resume_own_navigation"
    /\ calc.pointer = Len(ap.flight_plan_name[1])
    /\ hist.op = "update" /\ ~hist.raised
    /\ Pointer(ap) = Len(ap.flight_plan_name[1])
    /\ ap.lateral_mode[1] = HEADING

----------------------------------------------------------------------------
(* Properties of the commanded speed (SpecSpeed) *)

\* C33: after set_speed(s) with s not above the maximum CAS, the throttle
\* mode is SPEED and the CAS target is s after every later update, in either
\* global speed-reference mode, until another speed command or
\* resume_own_navigation
C33_SpeedKept ==
    (calc # NoCalc /\ calc.op = "set_speed" /\ ~hist.raised) =>
        /\ ap.auto_throttle_mode[1] = SPEED
        /\ hist.op = "update" => ap.cas[1] = calc.speed

----------------------------------------------------------------------------
(* Properties of the relay (SpecRelay) *)

\* C23: a webrtc event sent by one client is relayed with its payload
\* unchanged to every other connected client and never to the sender
C23_Relayed ==
    (calc # NoCalc /\ calc.op = "webrtc") =>
        LET e == srv.emitted[Len(srv.emitted)]
        IN  /\ e.event = "webrtc"
            /\ e.data = calc.data
            /\ e.received = calc.connected \ {calc.sid}
            /\ calc.sid \notin e.received

\* a client has sent an offer while two other clients were connected
C23_Witness ==
    /\ calc # NoCalc /\ calc.op = "webrtc"
    /\ calc.data = "offer"
    /\ Cardinality(calc.connected) = 3
    /\ Cardinality(srv.emitted[Len(srv.emitted)].received) = 2

----------------------------------------------------------------------------
(* Properties of the scenario listing (SpecListing) *)

Listed == calc # NoCalc /\ calc.op = "getSimulationFile"

\* the list holds exactly the names without extension, but for __init__
ListedExactly ==
    /\ {calc.result[i] : i \in 1..Len(calc.result)}
         = {removesuffix(f, DotPy) : f \in srv.directory \ {InitPy}}
    /\ Len(calc.result) = Cardinality(srv.directory \ {InitPy})

\* the list is in ascending order
ListedAscending ==
    \A i \in 1..(Len(calc.result) - 1) :
        StrLess(calc.result[i], calc.result[i + 1])

\* C24: for any set of .py files in the scenario directory getSimulationFile
\* returns exactly their names without the extension, __init__.py left out,
\* and the returned list is in ascending sorted order
C24_Listing == Listed => (ListedExactly /\ ListedAscending)

----------------------------------------------------------------------------
(* Properties of the fleet's parallel arrays (SpecFleet) *)

\* C21: after any sequence of add_aircraft and del_aircraft, every
\* per-aircraft Autopilot array has one entry for each live aircraft
C21_ParallelArrays ==
    ~hist.raised =>
        \A f \in DOMAIN ap : Len(ap[f]) = Len(traffic.index)

----------------------------------------------------------------------------
(* Properties of FullFlightDemo.should_end (SpecDemo) *)

\* every aircraft is at altitude 0
AllOnGround == \A k \in 1..Len(calc.alt) : calc.alt[k] = 0

\* C20: should_end returns true exactly when the elapsed time exceeds 60
\* seconds and every aircraft's altitude is 0; with every aircraft at
\* altitude 0 it returns false at or before 60 seconds
C20_ShouldEnd ==
    calc.out # << >> =>
        /\ calc.out[1] <=> (calc.global_time > 60 /\ AllOnGround)
        /\ (AllOnGround /\ calc.global_time <= 60) => ~calc.out[1]

\* one aircraft on the ground at exactly 60 seconds: the run goes on
C20_Witness ==
    /\ calc.out = <<FALSE>>
    /\ calc.global_time = 60 /\ calc.alt = <<0>>

====
